---- MODULE Spec2Model ----
(***************************************************************************)
(* Solon: the command dispatch engine (behavior registry matching, command *)
(* processor, heuristic fallback parser), the daemon's per-connection      *)
(* handler, the registry's documents and mutators, the daemon process from *)
(* startup to shutdown, the display monitor, the threads that share a      *)
(* registry or its file, the two registries a daemon constructs, and the   *)
(* clients that wait for a response.  Text is modelled character by        *)
(* character: a string is a sequence of one-character strings.             *)
(***************************************************************************)
EXTENDS Integers, Sequences, FiniteSets, TLC

VARIABLES
    \* ---- command processor (src/command_processor.py, src/behavior_registry.py)
    behaviors,   \* BehaviorRegistry.behaviors: the registered behaviors, in order
    command,     \* the raw text handed to process_command
    ppc,         \* position of process_command: "start", "exec", "heur", "done", "raised"
    cur,         \* the match returned by match_command ([idx, params]); idx = 0: none
    idx,         \* execute_behavior: index of the next action of the loop
    results,     \* execute_behavior: the results list built so far
    calls,       \* log of collaborator calls, in call order
    tried,       \* parse_direct_command: the heuristics whose handler block ran
    result,      \* the value process_command returned
    \* ---- daemon (src/solon_daemon.py)
    dstate,      \* SolonDaemon.run: "initializing", "listening", "stopped"
    conn,        \* per connection: handler position, socket, data read, bytes sent
    \* ---- behavior registry and its files (src/behavior_registry.py)
    reg,             \* the registry object: self.behaviors and self.app_rules
    behaviors_file,  \* the file at self.behaviors_file
    app_rules_file,  \* the file at self.app_rules_file
    last,            \* the last call of a registry method and what it did
    failures,        \* how many times save_app_rules has failed
    \* ---- daemon processes, the socket path and the login session (src/solon_daemon.py)
    inst,            \* per daemon process: position of run(), self.running, what it did
    sock_path,       \* the socket file at SOCKET_PATH: 0 (absent) or the process bound to it
    session,         \* the login session: login items, running apps, the quit requests made
    \* ---- display monitor (src/display_monitor.py)
    mon,             \* last_display_count, the displays connected, the window-manager calls
    \* ---- threads that use one registry object or one app-rules file at a time
    thr              \* positions of reload(), save_app_rules() and a mutator, what readers saw

procVars == <<behaviors, command, ppc, cur, idx, results, calls, tried, result>>
daemonVars == <<dstate, conn>>
regVars == <<reg, behaviors_file, app_rules_file, last, failures>>
sysVars == <<inst, sock_path, session, mon, thr>>
vars == <<behaviors, command, ppc, cur, idx, results, calls, tried, result,
          dstate, conn, reg, behaviors_file, app_rules_file, last, failures,
          inst, sock_path, session, mon, thr>>

(***************************************************************************)
(* Characters and strings                                                  *)
(***************************************************************************)
LowerLetters ==
    <<"a","b","c","d","e","f","g","h","i","j","k","l","m",
      "n","o","p","q","r","s","t","u","v","w","x","y","z">>
UpperLetters ==
    <<"A","B","C","D","E","F","G","H","I","J","K","L","M",
      "N","O","P","Q","R","S","T","U","V","W","X","Y","Z">>
Digits == {"0","1","2","3","4","5","6","7","8","9"}

Range(s) == {s[i] : i \in 1..Len(s)}

IsUpper(c) == c \in Range(UpperLetters)
IsLowerLetter(c) == c \in Range(LowerLetters)

\* str.lower() on one character
LowerChar(c) ==
    IF IsUpper(c)
    THEN LowerLetters[CHOOSE i \in 1..Len(UpperLetters) : UpperLetters[i] = c]
    ELSE c

\* str.upper() on one character
UpperChar(c) ==
    IF IsLowerLetter(c)
    THEN UpperLetters[CHOOSE i \in 1..Len(LowerLetters) : LowerLetters[i] = c]
    ELSE c

\* str.lower()
Lower(s) == [i \in 1..Len(s) |-> LowerChar(s[i])]

\* str.capitalize(): first character upper-cased, the rest lower-cased
Capitalize(s) == [i \in 1..Len(s) |-> IF i = 1 THEN UpperChar(s[i]) ELSE LowerChar(s[i])]

IsSpace(c) == c \in {" ", "\t", "\n"}
IsDigit(c) == c \in Digits
IsWord(c) == IsUpper(c) \/ IsLowerLetter(c) \/ IsDigit(c) \/ c = "_"

\* str.strip(): surrounding whitespace removed
RECURSIVE LStrip(_)
LStrip(s) == IF s # <<>> /\ IsSpace(Head(s)) THEN LStrip(Tail(s)) ELSE s
RECURSIVE RStrip(_)
RStrip(s) ==
    IF s # <<>> /\ IsSpace(s[Len(s)]) THEN RStrip(SubSeq(s, 1, Len(s) - 1)) ELSE s
Strip(s) == RStrip(LStrip(s))

\* whether needle occurs in s at position i (1-based)
StartsAt(s, i, needle) ==
    /\ i + Len(needle) - 1 <= Len(s)
    /\ \A j \in 1..Len(needle) : s[i + j - 1] = needle[j]

\* needle in s
Contains(s, needle) == \E i \in 1..(Len(s) + 1) : StartsAt(s, i, needle)

\* str.replace(old, new): every non-overlapping occurrence, left to right
RECURSIVE Replace(_, _, _)
Replace(s, old, new) ==
    IF s = <<>> \/ old = <<>> THEN s
    ELSE IF StartsAt(s, 1, old)
         THEN new \o Replace(SubSeq(s, Len(old) + 1, Len(s)), old, new)
         ELSE <<Head(s)>> \o Replace(Tail(s), old, new)

\* int(text) succeeds: an optional sign and decimal digits (surrounding
\* whitespace allowed)
IsDecimal(s) ==
    LET t == Strip(s)
        u == IF t # <<>> /\ Head(t) \in {"+", "-"} THEN Tail(t) ELSE t
    IN  u # <<>> /\ \A i \in 1..Len(u) : IsDigit(u[i])

(***************************************************************************)
(* Regular expressions, as Python's re evaluates them (backtracking, the   *)
(* leftmost match, alternatives in order, greedy and lazy repetition).     *)
(* A regex is a sequence of alternatives; an alternative is a sequence of  *)
(* items [cls, lo, many, lazy, grp]: a character class repeated lo..1 or   *)
(* lo..unbounded times, lazily or greedily, capturing or not.              *)
(***************************************************************************)
ClsLit(c) == [k |-> "lit", c |-> c]
ClsAny == [k |-> "any", c |-> ""]
ClsDigit == [k |-> "digit", c |-> ""]
ClsWord == [k |-> "word", c |-> ""]
ClsSpace == [k |-> "space", c |-> ""]

\* one literal character
Lit(c) == [cls |-> ClsLit(c), lo |-> 1, many |-> FALSE, lazy |-> FALSE, grp |-> FALSE]
\* the literal text s
LitSeq(s) == [i \in 1..Len(s) |-> Lit(s[i])]
\* cls+ , cls* , cls+? , cls*? , optionally a capturing group
Rep(cls, lo, lazy, grp) == [cls |-> cls, lo |-> lo, many |-> TRUE, lazy |-> lazy, grp |-> grp]

\* whether the class accepts the character (ic: re.IGNORECASE)
Accepts(cls, ch, ic) ==
    CASE cls.k = "lit" -> IF ic THEN LowerChar(ch) = LowerChar(cls.c) ELSE ch = cls.c
      [] cls.k = "any" -> ch # "\n"
      [] cls.k = "digit" -> IsDigit(ch)
      [] cls.k = "word" -> IsWord(ch)
      [] cls.k = "space" -> IsSpace(ch)

\* how many consecutive characters from pos the item can take
RECURSIVE Run(_, _, _, _, _)
Run(it, text, pos, ic, n) ==
    IF /\ pos + n <= Len(text)
       /\ (it.many \/ n < 1)
       /\ Accepts(it.cls, text[pos + n], ic)
    THEN Run(it, text, pos, ic, n + 1)
    ELSE n

NoMatch == [ok |-> FALSE, start |-> 0, end |-> 0, caps |-> <<>>]

\* match items[k..] at pos; the first success in backtracking order
RECURSIVE MatchFrom(_, _, _, _, _), TryCount(_, _, _, _, _, _, _)
MatchFrom(items, k, text, pos, ic) ==
    IF k > Len(items)
    THEN [ok |-> TRUE, start |-> pos, end |-> pos, caps |-> <<>>]
    ELSE LET it == items[k]
             r == Run(it, text, pos, ic, 0)
         IN  IF r < it.lo THEN NoMatch
             ELSE TryCount(items, k, text, pos, ic, IF it.lazy THEN it.lo ELSE r, r)

TryCount(items, k, text, pos, ic, n, r) ==
    LET it == items[k]
        rest == MatchFrom(items, k + 1, text, pos + n, ic)
    IN  IF rest.ok
        THEN [ok |-> TRUE, start |-> pos, end |-> rest.end,
              caps |-> IF it.grp
                       THEN <<SubSeq(text, pos, pos + n - 1)>> \o rest.caps
                       ELSE rest.caps]
        ELSE IF it.lazy
             THEN IF n < r THEN TryCount(items, k, text, pos, ic, n + 1, r) ELSE NoMatch
             ELSE IF n > it.lo THEN TryCount(items, k, text, pos, ic, n - 1, r) ELSE NoMatch

\* the alternatives alts[a..], in order, at pos
RECURSIVE MatchAlts(_, _, _, _, _)
MatchAlts(alts, a, text, pos, ic) ==
    IF a > Len(alts) THEN NoMatch
    ELSE LET m == MatchFrom(alts[a], 1, text, pos, ic)
         IN  IF m.ok THEN m ELSE MatchAlts(alts, a + 1, text, pos, ic)

\* re.search: the first position, left to right, at which the regex matches
RECURSIVE SearchFrom(_, _, _, _)
SearchFrom(alts, text, pos, ic) ==
    IF pos > Len(text) + 1 THEN NoMatch
    ELSE LET m == MatchAlts(alts, 1, text, pos, ic)
         IN  IF m.ok THEN m ELSE SearchFrom(alts, text, pos + 1, ic)

Search(alts, text, ic) == SearchFrom(alts, text, 1, ic)

\* match.group(0)
Group0(m, text) == SubSeq(text, m.start, m.end - 1)

(***************************************************************************)
(* Behavior registry: match_command                                        *)
(***************************************************************************)
RepoToken == <<"{","r","e","p","o","}">>
PortToken == <<"{","p","o","r","t","}">>
DotStar == <<".", "*">>

\* the regex re.search receives for a pattern: '{repo}' -> (.+?), '{port}' -> (\d+),
\* '.*' -> .*? ; the rest of the pattern is handed to re as it is, so a '+' after
\* a letter or digit repeats it; every other character of the patterns used here
\* stands for itself
RECURSIVE CompilePattern(_)
CompilePattern(pattern) ==
    IF pattern = <<>> THEN <<>>
    ELSE IF StartsAt(pattern, 1, RepoToken)
         THEN <<Rep(ClsAny, 1, TRUE, TRUE)>>
              \o CompilePattern(SubSeq(pattern, Len(RepoToken) + 1, Len(pattern)))
    ELSE IF StartsAt(pattern, 1, PortToken)
         THEN <<Rep(ClsDigit, 1, FALSE, TRUE)>>
              \o CompilePattern(SubSeq(pattern, Len(PortToken) + 1, Len(pattern)))
    ELSE IF StartsAt(pattern, 1, DotStar)
         THEN <<Rep(ClsAny, 0, TRUE, FALSE)>>
              \o CompilePattern(SubSeq(pattern, Len(DotStar) + 1, Len(pattern)))
    ELSE IF Len(pattern) >= 2 /\ pattern[2] = "+" /\ IsWord(pattern[1])
         THEN <<Rep(ClsLit(pattern[1]), 1, FALSE, FALSE)>>
              \o CompilePattern(SubSeq(pattern, 3, Len(pattern)))
    ELSE <<Lit(Head(pattern))>> \o CompilePattern(Tail(pattern))

\* re.search(param_pattern, command_lower, re.IGNORECASE)
PatternSearch(pattern, text) == Search(<<CompilePattern(pattern)>>, Lower(text), TRUE)

\* a parameter of a match: its value is a string, or None
Param(key, m) ==
    IF m.caps # <<>>
    THEN [key |-> key, isnone |-> FALSE, v |-> m.caps[1]]
    ELSE [key |-> key, isnone |-> TRUE, v |-> <<>>]

\* the params dict built for a successful match, in insertion order
MatchParams(pattern, m) ==
    (IF Contains(pattern, RepoToken) THEN <<Param("repo", m)>> ELSE <<>>)
    \o (IF Contains(pattern, PortToken) THEN <<Param("port", m)>> ELSE <<>>)

NoBehavior == [idx |-> 0, params |-> <<>>]

\* whether behavior b of the list matches the command
BehaviorMatches(b, text) == b.pattern # <<>> /\ PatternSearch(b.pattern, text).ok

\* match_command, loop from behavior i on: the first behavior whose pattern matches
RECURSIVE MatchCommandFrom(_, _, _)
MatchCommandFrom(bs, i, text) ==
    IF i > Len(bs) THEN NoBehavior
    ELSE IF BehaviorMatches(bs[i], text)
         THEN [idx |-> i,
               params |-> MatchParams(bs[i].pattern, PatternSearch(bs[i].pattern, text))]
         ELSE MatchCommandFrom(bs, i + 1, text)

\* the loop run over the list from its end: the last behavior whose pattern matches
RECURSIVE MatchCommandLast(_, _, _)
MatchCommandLast(bs, i, text) ==
    IF i < 1 THEN NoBehavior
    ELSE IF BehaviorMatches(bs[i], text)
         THEN [idx |-> i,
               params |-> MatchParams(bs[i].pattern, PatternSearch(bs[i].pattern, text))]
         ELSE MatchCommandLast(bs, i - 1, text)
match_command_last(bs, text) == MatchCommandLast(bs, Len(bs), text)

match_command(bs, text) == MatchCommandFrom(bs, 1, text)

(***************************************************************************)
(* Command processor: execute_behavior                                     *)
(***************************************************************************)
\* a field of an ActionSpec: a string, or (isstr = FALSE) the YAML integer
\* whose decimal digits are s
Str(s) == [isstr |-> TRUE, s |-> s]
IntField(s) == [isstr |-> FALSE, s |-> s]
\* a field whose YAML value is null: the Python value None
NoneField == [isstr |-> FALSE, s |-> <<"N","o","n","e">>]

NoneText == <<"N","o","n","e">>

\* the token '{key}' that _substitute_params replaces
KeyToken(key) == <<"{">> \o (IF key = "repo" THEN <<"r","e","p","o">> ELSE <<"p","o","r","t">>) \o <<"}">>

\* _substitute_params, loop from parameter i on.  text.replace raises
\* AttributeError when the field is not a string
RECURSIVE SubstituteFrom(_, _, _)
SubstituteFrom(text, params, i) ==
    IF i > Len(params) THEN [raise |-> FALSE, val |-> text]
    ELSE IF ~text.isstr THEN [raise |-> TRUE, val |-> text]
    ELSE SubstituteFrom(
             Str(Replace(text.s, KeyToken(params[i].key),
                         IF params[i].isnone THEN NoneText ELSE params[i].v)),
             params, i + 1)

_substitute_params(text, params) == SubstituteFrom(text, params, 1)

\* int() of a decimal text
RECURSIVE DigitsToInt(_)
DigitsToInt(s) ==
    IF s = <<>> THEN 0
    ELSE 10 * DigitsToInt(SubSeq(s, 1, Len(s) - 1))
         + (CHOOSE d \in 0..9 : <<"0","1","2","3","4","5","6","7","8","9">>[d + 1] = s[Len(s)])
ToInt(s) ==
    LET t == Strip(s)
    IN  IF t # <<>> /\ Head(t) = "-" THEN 0 - DigitsToInt(Tail(t))
        ELSE IF t # <<>> /\ Head(t) = "+" THEN DigitsToInt(Tail(t))
        ELSE DigitsToInt(t)

\* a collaborator call: the function and its arguments
Call(fn, app, args, display, maximize, path, port) ==
    [fn |-> fn, app |-> app, args |-> args, display |-> display,
     maximize |-> maximize, path |-> path, port |-> port]

\* what one iteration of the loop of execute_behavior does before any collaborator
\* runs: [raise] the preparation raised; [call] a collaborator is called with rec;
\* otherwise the iteration appends val without calling anything
\* an entry of the call log: the call and what it returned ("raise": it raised)
Logged(rec, ret) == [rec |-> rec, ret |-> ret]

NoCall == Call("", Str(<<>>), <<>>, 0, FALSE, Str(<<>>), 0)
Prepared(raise, call, rec, val) == [raise |-> raise, call |-> call, rec |-> rec, val |-> val]

RECURSIVE SubstituteArgs(_, _, _)
SubstituteArgs(args, params, i) ==
    IF i > Len(args) THEN [raise |-> FALSE, val |-> <<>>]
    ELSE LET one == _substitute_params(args[i], params)
             rest == SubstituteArgs(args, params, i + 1)
         IN  IF one.raise \/ rest.raise THEN [raise |-> TRUE, val |-> <<>>]
             ELSE [raise |-> FALSE, val |-> <<one.val>> \o rest.val]

PrepareAction(action, params) ==
    CASE action.type = "launch_app" ->
           LET app == _substitute_params(action.app, params)
               args == SubstituteArgs(action.args, params, 1)
           IN  IF app.raise \/ args.raise THEN Prepared(TRUE, FALSE, NoCall, "None")
               ELSE Prepared(FALSE, TRUE,
                             Call("launch_app", app.val, args.val, 0, FALSE, Str(<<>>), 0),
                             "None")
      [] action.type = "move_windows" ->
           LET app == _substitute_params(action.app, params)
           IN  IF app.raise THEN Prepared(TRUE, FALSE, NoCall, "None")
               ELSE Prepared(FALSE, TRUE,
                             Call("move_windows_to_display", app.val, <<>>, action.display,
                                  action.maximize, Str(<<>>), 0),
                             "None")
      [] action.type = "close_windows_except" ->
           LET app == _substitute_params(action.app, params)
               path == _substitute_params(action.repo_path, params)
           IN  IF app.raise \/ path.raise THEN Prepared(TRUE, FALSE, NoCall, "None")
               ELSE Prepared(FALSE, TRUE,
                             Call("close_windows_except", app.val, <<>>, 0, FALSE, path.val, 0),
                             "None")
      [] action.type = "kill_port" ->
           LET port == _substitute_params(action.port, params)
           IN  IF port.raise THEN Prepared(TRUE, FALSE, NoCall, "None")
               ELSE IF port.val.isstr /\ ~IsDecimal(port.val.s)
                    THEN Prepared(FALSE, FALSE, NoCall, "False")   \* except ValueError
               ELSE IF ~port.val.isstr /\ ~IsDecimal(port.val.s)
                    THEN Prepared(TRUE, FALSE, NoCall, "None")     \* int(None): TypeError
               ELSE Prepared(FALSE, TRUE,
                             Call("kill_port", Str(<<>>), <<>>, 0, FALSE, Str(<<>>),
                                  ToInt(port.val.s)),
                             "None")
      [] OTHER -> Prepared(FALSE, FALSE, NoCall, "None")           \* result = None

\* what a collaborator can do when called: return True or False, or raise.
\* launch_app catches every exception; the window manager, the port manager and
\* the editor opener catch subprocess.CalledProcessError only
Outcomes(fn) ==
    IF fn \in {"launch_app", "find_repo_in_desktop"} THEN {"True", "False"}
    ELSE {"True", "False", "raise"}

Truthy(r) == r = "True"

\* all(results) if results else False
SuccessAllOnly(rs) == \A i \in 1..Len(rs) : Truthy(rs[i])
Success(rs) == rs # <<>> /\ \A i \in 1..Len(rs) : Truthy(rs[i])

\* the loop index after the action at index i of n returned outcome r
NextIndexStopOnFailure(i, n, r) == IF Truthy(r) THEN i + 1 ELSE n + 1
NextIndex(i, n, r) == i + 1

\* the values process_command returns
BehaviorResult(name, rs) ==
    [kind |-> "behavior", success |-> Success(rs), name |-> name, results |-> rs,
     error |-> <<>>]
CommandResultSucceeds(name, r) ==
    [kind |-> "command", success |-> TRUE, name |-> name, results |-> <<>>,
     error |-> <<>>]
CommandResult(name, r) ==
    [kind |-> "command", success |-> Truthy(r), name |-> name, results |-> <<>>,
     error |-> <<>>]
ErrorResult(text) ==
    [kind |-> "error", success |-> FALSE, name |-> "", results |-> <<>>, error |-> text]
NoResult == [kind |-> "", success |-> FALSE, name |-> "", results |-> <<>>, error |-> <<>>]

EmptyCommandText == <<"E","m","p","t","y"," ","c","o","m","m","a","n","d">>
UnknownCommandPrefix == <<"U","n","k","n","o","w","n"," ","c","o","m","m","a","n","d",":"," ">>

(***************************************************************************)
(* Command processor: parse_direct_command (the heuristic fallback)        *)
(***************************************************************************)
Tail2 == <<Rep(ClsAny, 0, TRUE, FALSE), Rep(ClsWord, 1, FALSE, TRUE)>>
\* (?:cursor|vscode|code).*?(\w+)
RepoRegex ==
    <<LitSeq(<<"c","u","r","s","o","r">>) \o Tail2,
      LitSeq(<<"v","s","c","o","d","e">>) \o Tail2,
      LitSeq(<<"c","o","d","e">>) \o Tail2>>
\* move\s+(\w+)
MoveAppRegex ==
    <<LitSeq(<<"m","o","v","e">>) \o <<Rep(ClsSpace, 1, FALSE, FALSE), Rep(ClsWord, 1, FALSE, TRUE)>>>>
\* (w\d+|display\s*\d+)
DisplayRegex ==
    <<LitSeq(<<"w">>) \o <<Rep(ClsDigit, 1, FALSE, FALSE)>>,
      LitSeq(<<"d","i","s","p","l","a","y">>) \o <<Rep(ClsSpace, 0, FALSE, FALSE), Rep(ClsDigit, 1, FALSE, FALSE)>>>>
\* port\s*(\d+)
PortRegex ==
    <<LitSeq(<<"p","o","r","t">>) \o <<Rep(ClsSpace, 0, FALSE, FALSE), Rep(ClsDigit, 1, FALSE, TRUE)>>>>
\* close\s+(\w+)
CloseAppRegex ==
    <<LitSeq(<<"c","l","o","s","e">>) \o <<Rep(ClsSpace, 1, FALSE, FALSE), Rep(ClsWord, 1, FALSE, TRUE)>>>>
\* except\s+(\w+)
ExceptRegex ==
    <<LitSeq(<<"e","x","c","e","p","t">>) \o <<Rep(ClsSpace, 1, FALSE, FALSE), Rep(ClsWord, 1, FALSE, TRUE)>>>>

\* the textual guard of each heuristic, over the lowercased command
EditorTrigger(cl) ==
    /\ Contains(cl, <<"o","p","e","n"," ","c","u","r","s","o","r">>) \/ Contains(cl, <<"o","p","e","n"," ","v","s","c","o","d","e">>)
    /\ Search(RepoRegex, cl, FALSE).ok
MoveTrigger(cl) ==
    /\ Contains(cl, <<"m","o","v","e">>)
    /\ Search(MoveAppRegex, cl, FALSE).ok
    /\ Search(DisplayRegex, cl, FALSE).ok
PortTrigger(cl) ==
    /\ Contains(cl, <<"c","l","o","s","e"," ","p","o","r","t">>) \/ Contains(cl, <<"k","i","l","l"," ","p","o","r","t">>)
    /\ Search(PortRegex, cl, FALSE).ok
CloseExceptTrigger(cl) ==
    /\ Contains(cl, <<"c","l","o","s","e">>) /\ Contains(cl, <<"e","x","c","e","p","t">>)
    /\ Search(CloseAppRegex, cl, FALSE).ok
    /\ Search(ExceptRegex, cl, FALSE).ok

\* display_num of the move heuristic
DisplayNum(display_str) ==
    IF Contains(display_str, <<"w","1">>) \/ Contains(display_str, <<"d","i","s","p","l","a","y"," ","1">>) THEN 1
    ELSE IF Contains(display_str, <<"w","2">>) \/ Contains(display_str, <<"d","i","s","p","l","a","y"," ","2">>) THEN 2
    ELSE 1

HeuristicNames == <<"open_repo", "move_windows", "kill_port", "close_windows_except">>

\* the collaborator call each heuristic makes first
EditorCall(cl) ==
    Call(IF Contains(cl, <<"c","u","r","s","o","r">>) THEN "open_cursor_with_repo" ELSE "open_vscode_with_repo",
         Str(<<>>), <<>>, 0, FALSE, Str(Search(RepoRegex, cl, FALSE).caps[1]), 0)
MoveCall(cl) ==
    LET dm == Search(DisplayRegex, cl, FALSE)
    IN  Call("move_windows_to_display",
             Str(Capitalize(Search(MoveAppRegex, cl, FALSE).caps[1])), <<>>,
             DisplayNum(Group0(dm, cl)), Contains(cl, <<"m","a","x","i","m","i","z","e">>), Str(<<>>), 0)
PortCall(cl) ==
    Call("kill_port", Str(<<>>), <<>>, 0, FALSE, Str(<<>>),
         ToInt(Search(PortRegex, cl, FALSE).caps[1]))
FindRepoCall(cl) ==
    Call("find_repo_in_desktop", Str(<<>>), <<>>, 0, FALSE,
         Str(Search(ExceptRegex, cl, FALSE).caps[1]), 0)
\* the path find_repo_in_desktop returns for a repository it finds
RepoPath(name) == <<"~","/","D","e","s","k","t","o","p","/">> \o name
CloseExceptCall(cl) ==
    Call("close_windows_except",
         Str(Capitalize(Search(CloseAppRegex, cl, FALSE).caps[1])), <<>>, 0, FALSE,
         Str(RepoPath(Search(ExceptRegex, cl, FALSE).caps[1])), 0)

\* parse_direct_command: which heuristic block runs for the command (0: none)
parse_direct_port_first(cmd) ==
    LET cl == Lower(cmd)
    IN  IF EditorTrigger(cl) THEN 1
        ELSE IF PortTrigger(cl) THEN 3
        ELSE IF MoveTrigger(cl) THEN 2
        ELSE IF CloseExceptTrigger(cl) THEN 4
        ELSE 0
parse_direct_command(cmd) ==
    LET cl == Lower(cmd)
    IN  IF EditorTrigger(cl) THEN 1
        ELSE IF MoveTrigger(cl) THEN 2
        ELSE IF PortTrigger(cl) THEN 3
        ELSE IF CloseExceptTrigger(cl) THEN 4
        ELSE 0

(***************************************************************************)
(* Inputs: the behaviors a behavior document can register and the command  *)
(* texts a client can send                                                 *)
(***************************************************************************)
MaxBehaviors == 2

Action(type, app, args, display, maximize, repo_path, port) ==
    [type |-> type, app |-> app, args |-> args, display |-> display,
     maximize |-> maximize, repo_path |-> repo_path, port |-> port]
LaunchApp(app, args) == Action("launch_app", Str(app), args, 1, FALSE, Str(<<>>), Str(<<>>))
MoveWindows(app, display, maximize) ==
    Action("move_windows", Str(app), <<>>, display, maximize, Str(<<>>), Str(<<>>))
CloseWindowsExcept(app, path) ==
    Action("close_windows_except", Str(app), <<>>, 1, FALSE, Str(path), Str(<<>>))
KillPort(port) == Action("kill_port", Str(<<>>), <<>>, 1, FALSE, Str(<<>>), port)
OtherAction == Action("notify", Str(<<>>), <<>>, 1, FALSE, Str(<<>>), Str(<<>>))

Behavior(name, pattern, actions) == [name |-> name, pattern |-> pattern, actions |-> actions]

CursorApp == <<"C","u","r","s","o","r">>

BehaviorLib ==
    { Behavior("open_repo", <<"o","p","e","n"," ","{","r","e","p","o","}">>,
               <<LaunchApp(CursorApp, <<Str(RepoToken)>>),
                 MoveWindows(CursorApp, 1, TRUE),
                 CloseWindowsExcept(CursorApp, RepoToken)>>),
      Behavior("kill", <<"k","i","l","l"," ","{","p","o","r","t","}">>, <<KillPort(Str(PortToken))>>),
      Behavior("noop", <<"O","p","e","n">>, <<>>),
      Behavior("free", <<"f","r","e","e"," ","{","r","e","p","o","}">>,
               <<KillPort(IntField(<<"3","0","0","0">>)), LaunchApp(CursorApp, <<>>)>>),
      Behavior("tidy", <<"m","o","v","e",".","*","w","1">>,
               <<KillPort(Str(PortToken)), OtherAction, KillPort(IntField(<<"8","0","8","0">>)),
                 LaunchApp(CursorApp, <<>>)>>),
      Behavior("blank", <<>>, <<LaunchApp(CursorApp, <<>>)>>) }

BehaviorLists == UNION {[1..n -> BehaviorLib] : n \in 0..MaxBehaviors}

Commands ==
    { <<>>,
      <<" "," ">>,
      <<"o","p","e","n"," ","c","u","r","s","o","r"," ","w","e","b">>,
      <<"O","p","e","n"," ","V","S","C","o","d","e"," ","w","e","b"," ">>,
      <<"o","p","e","n"," ","c","u","r","s","o","r">>,
      <<"m","o","v","e"," ","s","a","f","a","r","i"," ","w","1"," ","o","p","e","n"," ","c","u","r","s","o","r">>,
      <<"m","o","v","e"," ","c","h","r","o","m","e"," ","t","o"," ","d","i","s","p","l","a","y"," ","2"," ","m","a","x","i","m","i","z","e">>,
      <<"m","o","v","e"," ","c","h","r","o","m","e"," ","w","1"," ","k","i","l","l"," ","p","o","r","t"," ","8","0">>,
      <<"k","i","l","l"," ","p","o","r","t"," ","3","0","0","0">>,
      <<"c","l","o","s","e"," ","p","o","r","t"," ","8","0"," ","e","x","c","e","p","t"," ","x">>,
      <<"c","l","o","s","e"," ","c","u","r","s","o","r"," ","e","x","c","e","p","t"," ","w","e","b">>,
      <<"k","i","l","l"," ","3","0","0","0">>,
      <<"f","r","e","e"," ","w","e","b">>,
      <<"h","e","l","l","o">> }

(***************************************************************************)
(* Behavior registry: the documents, load and the app-rule mutators.       *)
(* A Python dict whose keys may be missing is a record of entries with a   *)
(* present flag; a loaded value that is not of the expected type (None, a  *)
(* list) is told apart by its tag.  A file is its kind and, when it holds  *)
(* JSON or a YAML list, the value it holds.                                *)
(***************************************************************************)
\* the app names and the display slot the mutators are called with
Apps == {"Foo", "Bar"}
AllSlots == {"w1", "w2", "laptop"}
MutatedSlots == {"w1"}
\* the (behavior, maximize) settings add_display_rule is called with
RuleSettings == {<<"keep_same", FALSE>>, <<"maximize", TRUE>>}

Rule(app, behavior, maximize) ==
    [app |-> app, behavior |-> behavior, maximize |-> maximize]

\* app_rules['display_rules'][display]: missing, or a list of rules
NoSlot == [present |-> FALSE, rules |-> <<>>]
Slot(rules) == [present |-> TRUE, rules |-> rules]
\* app_rules['display_rules']: missing, or a dict of slots
NoDisplayRules == [present |-> FALSE, slots |-> [s \in AllSlots |-> NoSlot]]
DisplayRules(slots) == [present |-> TRUE, slots |-> slots]
\* app_rules['startup']: missing, or a dict with or without 'keep_open'
NoStartup ==
    [present |-> FALSE, has_keep_open |-> FALSE, keep_open |-> <<>>, close_others |-> TRUE]
StartupNoKeepOpen ==
    [present |-> TRUE, has_keep_open |-> FALSE, keep_open |-> <<>>, close_others |-> TRUE]
Startup(keep_open) ==
    [present |-> TRUE, has_keep_open |-> TRUE, keep_open |-> keep_open, close_others |-> TRUE]

AppRules(startup, display_rules) == [startup |-> startup, display_rules |-> display_rules]

\* load_app_rules: the structure used when the file cannot be read
DefaultAppRules ==
    AppRules(Startup(<<>>), DisplayRules([s \in AllSlots |-> Slot(<<>>)]))

\* self.app_rules: a dict, or another JSON value (null, a list)
Dict(v) == [tag |-> "dict", val |-> v]
NotADict == [tag |-> "other", val |-> AppRules(NoStartup, NoDisplayRules)]

\* the app-rules file: absent, not JSON, cut short by a failed write, or JSON
MissingFile == [kind |-> "missing", content |-> NotADict]
GarbageFile == [kind |-> "garbage", content |-> NotADict]
PartialFile == [kind |-> "partial", content |-> NotADict]
\* json.dump(self.app_rules, f, indent=2) written completely
JsonDump(v) == [kind |-> "json", content |-> v]

\* load_app_rules: json.load(f), the default on FileNotFoundError and on any other
\* exception
load_app_rules(file) ==
    IF file.kind = "json" THEN file.content ELSE Dict(DefaultAppRules)

\* self.behaviors: a list, or None
BehaviorList(bs) == [tag |-> "list", val |-> bs]
NoneBehaviors == [tag |-> "none", val |-> <<>>]

\* the behaviors file: absent, not YAML, YAML that is no mapping (an empty file,
\* a list), a mapping without the key 'behaviors', a mapping whose key
\* 'behaviors' has no value, a mapping with a list of behaviors
StoredBehaviors == <<Behavior("noop", <<"O","p","e","n">>, <<>>)>>
BehaviorFiles ==
    { [kind |-> k, content |-> <<>>] :
          k \in {"missing", "garbage", "not_mapping", "no_key", "null"} }
    \cup { [kind |-> "list", content |-> StoredBehaviors] }

\* load_behaviors: data = yaml.safe_load(f); self.behaviors = data.get('behaviors', [])
\* and [] on FileNotFoundError and on any other exception (data.get on a value
\* that is no mapping raises AttributeError)
load_behaviors(file) ==
    CASE file.kind = "list" -> BehaviorList(file.content)
      [] file.kind = "null" -> NoneBehaviors
      [] file.kind = "no_key" -> BehaviorList(<<>>)
      [] OTHER -> BehaviorList(<<>>)

\* the registry after load_behaviors and load_app_rules
Registry(bs, rules) == [behaviors |-> bs, app_rules |-> rules]

\* the indices of the rules of a slot that are for app
RulesFor(rules, app) == {i \in 1..Len(rules) : rules[i].app = app}

\* add_display_rule up to the save: the missing keys are created, the first rule of
\* the app is updated in place or the rule is appended
AppendAlways(v, display, rule) ==
    LET dr == IF v.display_rules.present THEN v.display_rules
              ELSE DisplayRules([s \in AllSlots |-> NoSlot])
        old == IF dr.slots[display].present THEN dr.slots[display].rules ELSE <<>>
    IN  [v EXCEPT !.display_rules =
            DisplayRules([dr.slots EXCEPT ![display] = Slot(Append(old, rule))])]
PutDisplayRuleAtEnd(v, display, rule) ==
    LET dr == IF v.display_rules.present THEN v.display_rules
              ELSE DisplayRules([s \in AllSlots |-> NoSlot])
        old == IF dr.slots[display].present THEN dr.slots[display].rules ELSE <<>>
        Other(r) == r.app # rule.app
    IN  [v EXCEPT !.display_rules =
            DisplayRules([dr.slots EXCEPT ![display] = Slot(Append(SelectSeq(old, Other), rule))])]
PutDisplayRule(v, display, rule) ==
    LET dr == IF v.display_rules.present THEN v.display_rules
              ELSE DisplayRules([s \in AllSlots |-> NoSlot])
        old == IF dr.slots[display].present THEN dr.slots[display].rules ELSE <<>>
        existing == RulesFor(old, rule.app)
        new == IF existing # {}
               THEN [old EXCEPT ![CHOOSE i \in existing : \A j \in existing : i <= j] = rule]
               ELSE Append(old, rule)
    IN  [v EXCEPT !.display_rules =
            DisplayRules([dr.slots EXCEPT ![display] = Slot(new)])]

\* [x for x in xs if keep(x)]
RECURSIVE WithoutApp(_, _)
WithoutApp(rules, app) ==
    IF rules = <<>> THEN <<>>
    ELSE (IF Head(rules).app = app THEN <<>> ELSE <<Head(rules)>>)
             \o WithoutApp(Tail(rules), app)
RECURSIVE WithoutName(_, _)
WithoutName(names, app) ==
    IF names = <<>> THEN <<>>
    ELSE (IF Head(names) = app THEN <<>> ELSE <<Head(names)>>)
             \o WithoutName(Tail(names), app)

\* remove_display_rule: whether it returns early, and the filtered structure
RemoveReturnsEarly(v, display) ==
    ~v.display_rules.present \/ ~v.display_rules.slots[display].present
DropDisplayRule(v, display, app) ==
    [v EXCEPT !.display_rules.slots[display].rules = WithoutApp(@, app)]

\* add_startup_app: the missing keys are created; the app is appended unless it is
\* in the list
StartupReady(v) ==
    IF ~v.startup.present THEN [v EXCEPT !.startup = Startup(<<>>)]
    ELSE IF ~v.startup.has_keep_open
         THEN [v EXCEPT !.startup.has_keep_open = TRUE, !.startup.keep_open = <<>>]
         ELSE v
InKeepOpenNever(v, app) == FALSE
InKeepOpen(v, app) == \E i \in 1..Len(v.startup.keep_open) : v.startup.keep_open[i] = app
PutStartupApp(v, app) == [v EXCEPT !.startup.keep_open = Append(@, app)]

\* remove_startup_app: whether it does nothing, and the filtered structure
RemoveStartupSkips(v) == ~v.startup.present \/ ~v.startup.has_keep_open
DropStartupApp(v, app) == [v EXCEPT !.startup.keep_open = WithoutName(@, app)]

\* save_app_rules: the file after the call.  The file is opened with mode 'w',
\* which empties it: when open fails the file is as it was, when the write fails
\* after that the file is cut short, otherwise it holds the whole structure.
SaveOutcomes == {"ok", "open_failed", "write_failed"}
FileAfterSaveStartupOnly(file, rules, outcome) ==
    CASE outcome = "ok" -> JsonDump([rules EXCEPT !.val.display_rules = NoDisplayRules])
      [] outcome = "open_failed" -> file
      [] OTHER -> PartialFile
FileAfterSave(file, rules, outcome) ==
    CASE outcome = "ok" -> JsonDump(rules)
      [] outcome = "open_failed" -> file
      [] OTHER -> PartialFile
\* save_app_rules returns True or False
SaveReturn(outcome) == IF outcome = "ok" THEN "True" ELSE "False"

(***************************************************************************)
(* Command processor: the state machine of one process_command call        *)
(***************************************************************************)
DaemonIdle ==
    /\ dstate = "off"
    /\ conn = <<>>

\* no registry call is made: the registry is the one of the default files
RegistryIdle ==
    /\ reg = Registry(BehaviorList(<<>>), Dict(DefaultAppRules))
    /\ behaviors_file = [kind |-> "missing", content |-> <<>>]
    /\ app_rules_file = MissingFile
    /\ last = [op |-> "none"]
    /\ failures = 0

\* no daemon process runs, no display is watched, no thread shares the registry
SysIdle ==
    /\ inst = <<>>
    /\ sock_path = 0
    /\ session = <<>>
    /\ mon = <<>>
    /\ thr = <<>>

InitProcessor ==
    /\ behaviors \in BehaviorLists
    /\ command \in Commands
    /\ ppc = "start"
    /\ cur = NoBehavior
    /\ idx = 1
    /\ results = <<>>
    /\ calls = <<>>
    /\ tried = <<>>
    /\ result = NoResult
    /\ DaemonIdle
    /\ RegistryIdle
    /\ SysIdle

\* the actions of the matched behavior
CurActions == behaviors[cur.idx].actions

\* process_command: where a non-empty command goes after match_command returned m
DispatchHeuristicsFirst(m, c) ==
    IF parse_direct_command(c) # 0 THEN "heur" ELSE IF m.idx # 0 THEN "exec" ELSE "heur"
Dispatch(m, c) == IF m.idx # 0 THEN "exec" ELSE "heur"

\* a process_command that asks the registry before it looks at the text
ProcessCommandMatchesFirst ==
    /\ ppc = "start"
    /\ LET c == Strip(command)
           m == match_command(behaviors, c)
       IN  IF m.idx # 0
           THEN /\ cur' = m
                /\ ppc' = "exec"
                /\ UNCHANGED result
           ELSE IF c = <<>>
           THEN /\ result' = ErrorResult(EmptyCommandText)
                /\ ppc' = "done"
                /\ UNCHANGED cur
           ELSE /\ cur' = m
                /\ ppc' = "heur"
                /\ UNCHANGED result
    /\ UNCHANGED <<behaviors, command, idx, results, calls, tried>>
    /\ UNCHANGED daemonVars
    /\ UNCHANGED regVars
    /\ UNCHANGED sysVars

\* process_command up to the dispatch: strip, the empty check, match_command
ProcessCommand ==
    /\ ppc = "start"
    /\ LET c == Strip(command)
       IN  IF c = <<>>
           THEN /\ result' = ErrorResult(EmptyCommandText)
                /\ ppc' = "done"
                /\ UNCHANGED cur
           ELSE LET m == match_command(behaviors, c)
                IN  /\ cur' = m
                    /\ ppc' = Dispatch(m, c)
                    /\ UNCHANGED result
    /\ UNCHANGED <<behaviors, command, idx, results, calls, tried>>
    /\ UNCHANGED daemonVars
    /\ UNCHANGED regVars
    /\ UNCHANGED sysVars

\* one iteration of the loop of execute_behavior
ExecuteAction ==
    /\ ppc = "exec"
    /\ idx <= Len(CurActions)
    /\ LET p == PrepareAction(CurActions[idx], cur.params)
       IN  IF p.raise
           THEN /\ ppc' = "raised"
                /\ UNCHANGED <<idx, results, calls>>
           ELSE IF ~p.call
           THEN /\ results' = Append(results, p.val)
                /\ idx' = NextIndex(idx, Len(CurActions), p.val)
                /\ UNCHANGED <<ppc, calls>>
           ELSE \E o \in Outcomes(p.rec.fn) :
                    /\ calls' = Append(calls, Logged(p.rec, o))
                    /\ IF o = "raise"
                       THEN /\ ppc' = "raised"
                            /\ UNCHANGED <<idx, results>>
                       ELSE /\ results' = Append(results, o)
                            /\ idx' = NextIndex(idx, Len(CurActions), o)
                            /\ UNCHANGED ppc
    /\ UNCHANGED <<behaviors, command, cur, tried, result>>
    /\ UNCHANGED daemonVars
    /\ UNCHANGED regVars
    /\ UNCHANGED sysVars

\* the end of execute_behavior: the result envelope
ExecuteReturn ==
    /\ ppc = "exec"
    /\ idx > Len(CurActions)
    /\ result' = BehaviorResult(behaviors[cur.idx].name, results)
    /\ ppc' = "done"
    /\ UNCHANGED <<behaviors, command, cur, idx, results, calls, tried>>
    /\ UNCHANGED daemonVars
    /\ UNCHANGED regVars
    /\ UNCHANGED sysVars

\* a heuristic that makes one collaborator call and returns its outcome
SimpleHeuristic(h, call) ==
    /\ ppc = "heur"
    /\ parse_direct_command(Strip(command)) = h
    /\ tried' = Append(tried, h)
    /\ \E o \in Outcomes(call.fn) :
           /\ calls' = Append(calls, Logged(call, o))
           /\ IF o = "raise"
              THEN ppc' = "raised" /\ UNCHANGED result
              ELSE ppc' = "done" /\ result' = CommandResult(HeuristicNames[h], o)
    /\ UNCHANGED <<behaviors, command, cur, idx, results>>
    /\ UNCHANGED daemonVars
    /\ UNCHANGED regVars
    /\ UNCHANGED sysVars

HeuristicOpenRepo == SimpleHeuristic(1, EditorCall(Lower(Strip(command))))
HeuristicMoveWindows == SimpleHeuristic(2, MoveCall(Lower(Strip(command))))
HeuristicKillPort == SimpleHeuristic(3, PortCall(Lower(Strip(command))))

\* close-windows-except: the repository is looked up first; when it is not found
\* the block falls through to the final return
HeuristicCloseExcept ==
    /\ ppc = "heur"
    /\ parse_direct_command(Strip(command)) = 4
    /\ tried' = Append(tried, 4)
    /\ LET cl == Lower(Strip(command))
       IN  \E found \in BOOLEAN :
               IF ~found
               THEN /\ calls' = Append(calls, Logged(FindRepoCall(cl), "False"))
                    /\ ppc' = "done"
                    /\ result' = ErrorResult(UnknownCommandPrefix \o Strip(command))
               ELSE \E o \in Outcomes("close_windows_except") :
                        /\ calls' = calls \o <<Logged(FindRepoCall(cl), "True"),
                                                Logged(CloseExceptCall(cl), o)>>
                        /\ IF o = "raise"
                           THEN ppc' = "raised" /\ UNCHANGED result
                           ELSE /\ ppc' = "done"
                                /\ result' = CommandResult(HeuristicNames[4], o)
    /\ UNCHANGED <<behaviors, command, cur, idx, results>>
    /\ UNCHANGED daemonVars
    /\ UNCHANGED regVars
    /\ UNCHANGED sysVars

\* a fallback that reports the lowercased text the heuristics worked on
UnknownCommandLowered ==
    /\ ppc = "heur"
    /\ parse_direct_command(Strip(command)) = 0
    /\ result' = ErrorResult(UnknownCommandPrefix \o Lower(Strip(command)))
    /\ ppc' = "done"
    /\ UNCHANGED <<behaviors, command, cur, idx, results, calls, tried>>
    /\ UNCHANGED daemonVars
    /\ UNCHANGED regVars
    /\ UNCHANGED sysVars

\* no heuristic recognizes the command
UnknownCommand ==
    /\ ppc = "heur"
    /\ parse_direct_command(Strip(command)) = 0
    /\ result' = ErrorResult(UnknownCommandPrefix \o Strip(command))
    /\ ppc' = "done"
    /\ UNCHANGED <<behaviors, command, cur, idx, results, calls, tried>>
    /\ UNCHANGED daemonVars
    /\ UNCHANGED regVars
    /\ UNCHANGED sysVars

NextProcessor ==
    \/ ProcessCommand
    \/ ExecuteAction
    \/ ExecuteReturn
    \/ HeuristicOpenRepo
    \/ HeuristicMoveWindows
    \/ HeuristicKillPort
    \/ HeuristicCloseExcept
    \/ UnknownCommand

Spec == InitProcessor /\ [][NextProcessor]_vars

(***************************************************************************)
(* Properties of the command processor                                     *)
(***************************************************************************)
\* the command as process_command sees it after strip()
Stripped == Strip(command)

\* the collaborator calls a behavior's action list makes when every action is
\* executed, in list order
RECURSIVE ExpectedCalls(_, _, _)
ExpectedCalls(actions, params, i) ==
    IF i > Len(actions) THEN <<>>
    ELSE LET p == PrepareAction(actions[i], params)
         IN  (IF p.call THEN <<p.rec>> ELSE <<>>) \o ExpectedCalls(actions, params, i + 1)

\* how many of the actions 1..i call a collaborator
DispatchCount(actions, params, i) ==
    Cardinality({j \in 1..i : PrepareAction(actions[j], params).call})

CallRecs == [k \in 1..Len(calls) |-> calls[k].rec]

\* C1: when execute_behavior runs a matched behavior, the collaborator calls made
\* so far are the calls of the behavior's actions, each once and in list order;
\* when it returns, every action has been executed, also after an earlier one
\* returned failure, and results holds the outcome of each action at its position.
C1_EveryActionInOrder ==
    cur.idx # 0 =>
        LET exp == ExpectedCalls(CurActions, cur.params, 1)
        IN  /\ Len(calls) <= Len(exp)
            /\ CallRecs = SubSeq(exp, 1, Len(calls))
            /\ ppc = "done" =>
                   /\ Len(calls) = Len(exp)
                   /\ result.results = results
                   /\ Len(results) = Len(CurActions)
                   /\ \A i \in 1..Len(CurActions) :
                          LET p == PrepareAction(CurActions[i], cur.params)
                          IN  results[i] =
                                  IF p.call
                                  THEN calls[DispatchCount(CurActions, cur.params, i)].ret
                                  ELSE p.val

\* a behavior of three actions returned [true, false, true]
C1_Witness ==
    /\ ppc = "done"
    /\ cur.idx # 0
    /\ Len(calls) = 3
    /\ result.results = <<"True", "False", "True">>

\* C2: a behavior-driven result has success = true exactly when the behavior's
\* action list is non-empty and every per-action outcome is true; an empty action
\* list gives success = false.
C2_SuccessIsNonEmptyAnd ==
    (ppc = "done" /\ result.kind = "behavior") =>
        /\ cur.idx # 0
        /\ result.success <=>
               /\ CurActions # <<>>
               /\ \A i \in 1..Len(CurActions) : result.results[i] = "True"
        /\ CurActions = <<>> => ~result.success

\* a behavior with an empty action list was executed
C2_Witness ==
    /\ ppc = "done"
    /\ result.kind = "behavior"
    /\ cur.idx # 0
    /\ CurActions = <<>>
    /\ ~result.success

\* C3: an exception raised while executing an action of a behavior (by the
\* collaborator or while preparing its arguments) never propagates out of
\* process(): the execution ends with a behavior result holding one outcome per
\* action.
C3_RaiseIsCaptured ==
    (cur.idx # 0 /\ ppc \in {"done", "raised"}) =>
        /\ ppc = "done"
        /\ result.kind = "behavior"
        /\ Len(result.results) = Len(CurActions)

\* the registered behaviors whose pattern matches the command
Matching == {i \in 1..Len(behaviors) : BehaviorMatches(behaviors[i], Stripped)}

\* C4: when the patterns of two registered behaviors both match the command,
\* match returns the one registered earlier.
C4_FirstRegisteredWins ==
    (ppc # "start" /\ Stripped # <<>>) =>
        \A i \in Matching : \A j \in Matching :
            i < j => (cur.idx # 0 /\ cur.idx <= i)

\* two different behaviors both match and the first one was returned
C4_Witness ==
    /\ ppc # "start"
    /\ Stripped # <<>>
    /\ Len(behaviors) = 2
    /\ Matching = {1, 2}
    /\ behaviors[1].name # behaviors[2].name
    /\ cur.idx = 1

\* C5: when a registered behavior matches a non-empty command, process() executes
\* that behavior's action list and returns the behavior-shaped result; no heuristic
\* runs, also when the command would trigger one.
C5_MatchBeatsHeuristics ==
    (ppc # "start" /\ Stripped # <<>> /\ Matching # {}) =>
        /\ cur.idx \in Matching
        /\ ppc # "heur"
        /\ tried = <<>>
        /\ \A k \in 1..Len(calls) :
               calls[k].rec \in Range(ExpectedCalls(CurActions, cur.params, 1))
        /\ ppc = "done" =>
               /\ result.kind = "behavior"
               /\ result.name = behaviors[cur.idx].name

\* a behavior result was returned for a command that a heuristic recognizes too
C5_Witness ==
    /\ ppc = "done"
    /\ Matching # {}
    /\ parse_direct_command(Stripped) # 0
    /\ result.kind = "behavior"
    /\ calls # <<>>

\* the first heuristic, in the order editor-open, move-windows, kill-port,
\* close-windows-except, whose trigger matches the lowercased command (0: none)
FirstTrigger ==
    LET cl == Lower(Stripped)
        hs == {h \in 1..4 : CASE h = 1 -> EditorTrigger(cl)
                              [] h = 2 -> MoveTrigger(cl)
                              [] h = 3 -> PortTrigger(cl)
                              [] h = 4 -> CloseExceptTrigger(cl)}
    IN  IF hs = {} THEN 0 ELSE CHOOSE h \in hs : \A g \in hs : h <= g

\* the collaborators each heuristic calls
HeuristicFns(h) ==
    CASE h = 1 -> {"open_cursor_with_repo", "open_vscode_with_repo"}
      [] h = 2 -> {"move_windows_to_display"}
      [] h = 3 -> {"kill_port"}
      [] h = 4 -> {"find_repo_in_desktop", "close_windows_except"}
      [] OTHER -> {}

\* the fallback ran: no behavior matched a non-empty command and process() ended
FallbackEnded == ppc \in {"done", "raised"} /\ Stripped # <<>> /\ Matching = {}

\* only the first heuristic whose trigger matches ran
OnlyFirstTriggerRan ==
    /\ tried = IF FirstTrigger = 0 THEN <<>> ELSE <<FirstTrigger>>
    /\ \A k \in 1..Len(calls) : calls[k].rec.fn \in HeuristicFns(FirstTrigger)

\* C6 as stated: the first heuristic whose trigger matches is the only one executed
\* and the result returned is that heuristic's result.
C6_FirstTriggerResultReturned ==
    FallbackEnded =>
        /\ OnlyFirstTriggerRan
        /\ (ppc = "done" /\ FirstTrigger # 0) =>
               /\ result.kind = "command"
               /\ result.name = HeuristicNames[FirstTrigger]
               /\ result.success = Truthy(calls[Len(calls)].ret)

\* the close-windows-except heuristic ran and did not find the repository
LookupFailed ==
    /\ FirstTrigger = 4
    /\ Len(calls) = 1
    /\ calls[1].rec.fn = "find_repo_in_desktop"
    /\ calls[1].ret = "False"

\* C6, amended: the first heuristic whose trigger matches is the only one executed
\* and its result is the one returned, except that close-windows-except, when its
\* repository lookup finds nothing, calls no window-manager operation and process()
\* returns the unrecognized-command failure.
C6_FirstTriggerOnly ==
    FallbackEnded =>
        /\ OnlyFirstTriggerRan
        /\ (ppc = "done" /\ FirstTrigger # 0) =>
               IF LookupFailed
               THEN result = ErrorResult(UnknownCommandPrefix \o Stripped)
               ELSE /\ result.kind = "command"
                    /\ result.name = HeuristicNames[FirstTrigger]
                    /\ result.success = Truthy(calls[Len(calls)].ret)

\* the move-windows and kill-port triggers both match and move-windows ran
C6_Witness ==
    /\ FallbackEnded
    /\ ppc = "done"
    /\ MoveTrigger(Lower(Stripped))
    /\ PortTrigger(Lower(Stripped))
    /\ result.name = "move_windows"
    /\ tried = <<2>>

(***************************************************************************)
(* Daemon: the accept loop of run() and the per-connection handler         *)
(* handle_client.  A payload and the data read from it are byte counts     *)
(* (the data read is always a prefix of the payload); a JSON object on the *)
(* wire is a sequence of pieces, and a failed sendall delivers a proper    *)
(* prefix of them.                                                         *)
(***************************************************************************)
MaxConns == 2
RecvBufSize == 4096

ConnIds == 1..MaxConns

\* the payloads a client sends: nothing (it closes), a short command, a command
\* longer than one read buffer
PayloadLens == {0, 12, 5000}

Min(a, b) == IF a < b THEN a ELSE b

\* what one recv(4096) can return for a payload of n > 0 bytes: all that fits
\* in the buffer, or the first chunk when the payload arrives in several
FirstChunk == 7
RecvLens(n) == {Min(n, RecvBufSize)} \cup {k \in {FirstChunk} : k < Min(n, RecvBufSize)}

\* json.dumps(result) and json.dumps({"success": False, "error": str(e)})
ResultJson == <<"{\"success\": ..., ", "...}">>
ErrorJson == <<"{\"success\": false, ", "\"error\": ...}">>

\* the bytes are a whole JSON object / the beginning of one
IsJsonObject(b) == b \in {ResultJson, ErrorJson}
IsJsonPrefix(b) ==
    \E o \in {ResultJson, ErrorJson} : Len(b) <= Len(o) /\ b = SubSeq(o, 1, Len(b))

NewConn ==
    [pc |-> "none", open |-> FALSE, payload |-> 0, data |-> 0, procCalls |-> 0,
     sends |-> 0, received |-> <<>>, failed |-> FALSE]

ProcessorIdle ==
    /\ behaviors = <<>>
    /\ command = <<>>
    /\ ppc = "idle"
    /\ cur = NoBehavior
    /\ idx = 1
    /\ results = <<>>
    /\ calls = <<>>
    /\ tried = <<>>
    /\ result = NoResult

InitDaemon ==
    /\ dstate = "initializing"
    /\ conn = [c \in ConnIds |-> NewConn]
    /\ ProcessorIdle
    /\ RegistryIdle
    /\ SysIdle

\* run() up to the main loop: startup tasks, the display monitor, bind and listen
DaemonRun ==
    /\ dstate = "initializing"
    /\ dstate' = "listening"
    /\ UNCHANGED conn
    /\ UNCHANGED procVars
    /\ UNCHANGED regVars
    /\ UNCHANGED sysVars

\* bind raises (the path cannot be bound): run() ends with the exception
DaemonBindFails ==
    /\ dstate = "initializing"
    /\ dstate' = "aborted"
    /\ UNCHANGED conn
    /\ UNCHANGED procVars
    /\ UNCHANGED regVars
    /\ UNCHANGED sysVars

\* a client connects to the listening socket and sends its payload
ClientConnect(c) ==
    /\ dstate = "listening"
    /\ conn[c].pc = "none"
    /\ \E n \in PayloadLens :
           conn' = [conn EXCEPT ![c].pc = "pending", ![c].payload = n]
    /\ UNCHANGED dstate
    /\ UNCHANGED procVars
    /\ UNCHANGED regVars
    /\ UNCHANGED sysVars

\* a main loop that runs the handler itself instead of starting a thread for it:
\* it accepts only when no handler is running
AcceptInline(c) ==
    /\ dstate = "listening"
    /\ conn[c].pc = "pending"
    /\ \A o \in ConnIds : conn[o].pc \in {"none", "pending", "done"}
    /\ conn' = [conn EXCEPT ![c].pc = "recv", ![c].open = TRUE]
    /\ UNCHANGED dstate
    /\ UNCHANGED procVars
    /\ UNCHANGED regVars
    /\ UNCHANGED sysVars

\* the main loop: accept() returns the connection and a handler thread is started
Accept(c) ==
    /\ dstate = "listening"
    /\ conn[c].pc = "pending"
    /\ conn' = [conn EXCEPT ![c].pc = "recv", ![c].open = TRUE]
    /\ UNCHANGED dstate
    /\ UNCHANGED procVars
    /\ UNCHANGED regVars
    /\ UNCHANGED sysVars

\* a handler that reads until the client closes its sending side: it returns from
\* its reads only for a client that has closed
HandleRecvUntilEof(c) ==
    /\ conn[c].pc = "recv"
    /\ conn[c].payload = 0
    /\ conn' = [conn EXCEPT ![c].pc = "finally"]
    /\ UNCHANGED dstate
    /\ UNCHANGED procVars
    /\ UNCHANGED regVars
    /\ UNCHANGED sysVars

\* handle_client: data = client_socket.recv(4096).decode('utf-8'); if not data: return
HandleRecv(c) ==
    /\ conn[c].pc = "recv"
    /\ \/ /\ conn[c].payload = 0
          /\ conn' = [conn EXCEPT ![c].pc = "finally"]
       \/ /\ conn[c].payload > 0
          /\ \E k \in RecvLens(conn[c].payload) :
                 conn' = [conn EXCEPT ![c].pc = "process", ![c].data = k]
       \/ conn' = [conn EXCEPT ![c].pc = "except", ![c].failed = TRUE]
    /\ UNCHANGED dstate
    /\ UNCHANGED procVars
    /\ UNCHANGED regVars
    /\ UNCHANGED sysVars

\* handle_client: result = self.processor.process_command(data), which returns
\* or raises
HandleProcessKillsDaemon(c) ==
    /\ conn[c].pc = "process"
    /\ \/ /\ conn' = [conn EXCEPT ![c].pc = "send", ![c].procCalls = @ + 1]
          /\ UNCHANGED dstate
       \/ /\ conn' = [conn EXCEPT ![c].pc = "except", ![c].procCalls = @ + 1,
                                  ![c].failed = TRUE]
          /\ dstate' = "aborted"
    /\ UNCHANGED procVars
    /\ UNCHANGED regVars
    /\ UNCHANGED sysVars
HandleProcess(c) ==
    /\ conn[c].pc = "process"
    /\ \/ conn' = [conn EXCEPT ![c].pc = "send", ![c].procCalls = @ + 1]
       \/ conn' = [conn EXCEPT ![c].pc = "except", ![c].procCalls = @ + 1,
                               ![c].failed = TRUE]
    /\ UNCHANGED dstate
    /\ UNCHANGED procVars
    /\ UNCHANGED regVars
    /\ UNCHANGED sysVars

\* handle_client: process_command is inside a collaborator call (subprocess.run,
\* which has no timeout) that never returns: the handler thread stays there
HandleStall(c) ==
    /\ conn[c].pc = "process"
    /\ conn' = [conn EXCEPT ![c].pc = "stalled", ![c].procCalls = @ + 1]
    /\ UNCHANGED dstate
    /\ UNCHANGED procVars
    /\ UNCHANGED regVars
    /\ UNCHANGED sysVars

\* handle_client: client_socket.sendall(json.dumps(result)): all of it is sent,
\* or sendall raises after j pieces went out
HandleSendThenReadAgain(c) ==
    /\ conn[c].pc = "send"
    /\ \E j \in 0..Len(ResultJson) :
           conn' = [conn EXCEPT
                       ![c].received = @ \o SubSeq(ResultJson, 1, j),
                       ![c].sends = IF j = Len(ResultJson) THEN @ + 1 ELSE @,
                       ![c].failed = IF j = Len(ResultJson) THEN @ ELSE TRUE,
                       ![c].pc = IF j = Len(ResultJson) THEN "process" ELSE "except"]
    /\ UNCHANGED dstate
    /\ UNCHANGED procVars
    /\ UNCHANGED regVars
    /\ UNCHANGED sysVars
HandleSend(c) ==
    /\ conn[c].pc = "send"
    /\ \E j \in 0..Len(ResultJson) :
           conn' = [conn EXCEPT
                       ![c].received = @ \o SubSeq(ResultJson, 1, j),
                       ![c].sends = IF j = Len(ResultJson) THEN @ + 1 ELSE @,
                       ![c].failed = IF j = Len(ResultJson) THEN @ ELSE TRUE,
                       ![c].pc = IF j = Len(ResultJson) THEN "finally" ELSE "except"]
    /\ UNCHANGED dstate
    /\ UNCHANGED procVars
    /\ UNCHANGED regVars
    /\ UNCHANGED sysVars

\* handle_client, except Exception: the error response is sent; a failure of this
\* sendall is swallowed
HandleExcept(c) ==
    /\ conn[c].pc = "except"
    /\ \E j \in 0..Len(ErrorJson) :
           conn' = [conn EXCEPT
                       ![c].received = @ \o SubSeq(ErrorJson, 1, j),
                       ![c].sends = IF j = Len(ErrorJson) THEN @ + 1 ELSE @,
                       ![c].pc = "finally"]
    /\ UNCHANGED dstate
    /\ UNCHANGED procVars
    /\ UNCHANGED regVars
    /\ UNCHANGED sysVars

\* handle_client, finally: client_socket.close()
HandleFinally(c) ==
    /\ conn[c].pc = "finally"
    /\ conn' = [conn EXCEPT ![c].pc = "done", ![c].open = FALSE]
    /\ UNCHANGED dstate
    /\ UNCHANGED procVars
    /\ UNCHANGED regVars
    /\ UNCHANGED sysVars

NextDaemon ==
    \/ DaemonRun
    \/ DaemonBindFails
    \/ \E c \in ConnIds : ClientConnect(c)
    \/ \E c \in ConnIds : Accept(c)
    \/ \E c \in ConnIds : HandleRecv(c)
    \/ \E c \in ConnIds : HandleProcess(c)
    \/ \E c \in ConnIds : HandleStall(c)
    \/ \E c \in ConnIds : HandleSend(c)
    \/ \E c \in ConnIds : HandleExcept(c)
    \/ \E c \in ConnIds : HandleFinally(c)

DaemonSpec == InitDaemon /\ [][NextDaemon]_vars

\* the steps the daemon takes for connection c, the stall excepted: at most one of
\* them is possible at a time
Progress(c) ==
    \/ Accept(c)
    \/ HandleRecv(c)
    \/ HandleProcess(c)
    \/ HandleSend(c)
    \/ HandleExcept(c)
    \/ HandleFinally(c)

\* the main loop and every handler are threads of their own, each scheduled again
\* and again: a step that stays possible is taken.  Nothing forces a collaborator
\* call to return, so HandleStall is a choice the handler in "process" may make.
DaemonFairness == \A c \in ConnIds : WF_vars(Progress(c))

DaemonLiveSpec == InitDaemon /\ [][NextDaemon]_vars /\ DaemonFairness

(***************************************************************************)
(* Properties of the connection handler                                    *)
(***************************************************************************)
\* the handler thread of the connection is running
InHandler(c) == conn[c].pc \in {"recv", "process", "send", "except", "finally"}

\* C7: one connection serves one command: its handler invokes the command
\* processor at most once, writes at most one complete response, keeps the socket
\* open while it runs and has closed it when it ends, on every path.
C7_OneCommandPerConnection ==
    \A c \in ConnIds :
        /\ conn[c].procCalls <= 1
        /\ conn[c].sends <= 1
        /\ InHandler(c) => conn[c].open
        /\ conn[c].pc = "done" => ~conn[c].open

\* a handler ended on the exception path: the processor ran once, the error
\* response was written and the socket is closed
C7_Witness ==
    \E c \in ConnIds :
        /\ conn[c].pc = "done"
        /\ conn[c].failed
        /\ conn[c].procCalls = 1
        /\ conn[c].sends = 1
        /\ ~conn[c].open

\* C8: whatever fails, the bytes a client has received are the beginning of one
\* JSON object, and once the connection is closed they are empty or exactly one
\* whole JSON object.
C8_EmptyOrOneJsonObject ==
    \A c \in ConnIds :
        /\ IsJsonPrefix(conn[c].received)
        /\ conn[c].pc = "done" =>
               (conn[c].received = <<>> \/ IsJsonObject(conn[c].received))

\* C9: the text the handler passes to the command processor is the complete
\* payload the client sent.
C9_CompletePayloadProcessed ==
    \A c \in ConnIds :
        conn[c].procCalls > 0 => conn[c].data = conn[c].payload

\* a connection was handled without a failure of its own
HandledCleanly(c) == conn[c].pc = "done" /\ ~conn[c].failed /\ conn[c].payload > 0

\* the step is a failure of the handler of c
FailureOf(c) == ~conn[c].failed /\ conn'[c].failed

\* C10: a failure while handling one connection changes neither the state of the
\* daemon's main loop nor any other connection; a listening daemon still accepts
\* the pending connections, and every connection handled without a failure of its
\* own has been answered with the result of its command.
C10_FailureIsolated ==
    /\ [](\A c \in ConnIds :
              /\ HandledCleanly(c) => conn[c].received = ResultJson
              /\ (dstate = "listening" /\ conn[c].pc = "pending") => ENABLED Accept(c)
              /\ InHandler(c) =>
                     ENABLED (HandleRecv(c) \/ HandleProcess(c) \/ HandleSend(c)
                              \/ HandleExcept(c) \/ HandleFinally(c)))
    /\ [][\A c \in ConnIds :
              FailureOf(c) =>
                  /\ dstate' = dstate
                  /\ \A o \in ConnIds \ {c} : conn'[o] = conn[o]]_vars

\* one connection failed and was dropped, another one was answered, and the
\* daemon is still listening
C10_Witness ==
    \E c \in ConnIds : \E o \in ConnIds \ {c} :
        /\ conn[o].pc = "done"
        /\ conn[o].failed
        /\ HandledCleanly(c)
        /\ conn[c].received = ResultJson
        /\ dstate = "listening"

\* the connection was answered and closed: nothing was to be answered (empty
\* payload), or the response was received, or its own handling failed
Answered(c) ==
    /\ conn[c].pc = "done"
    /\ ~conn[c].open
    /\ (conn[c].payload = 0 \/ conn[c].failed \/ conn[c].received = ResultJson)

\* C11: every connection that is waiting to be accepted or being handled is
\* eventually answered and closed unless its own processing stalls, whatever the
\* handlers of the other connections do: also while one of them is stalled
\* forever in a collaborator call.
C11_StallDoesNotBlock ==
    \A c \in ConnIds :
        (conn[c].pc = "pending" \/ InHandler(c))
            ~> (Answered(c) \/ conn[c].pc = "stalled")

\* one handler is stalled and another connection has received its response
C11_Witness ==
    \E s \in ConnIds : \E c \in ConnIds \ {s} :
        /\ conn[s].pc = "stalled"
        /\ conn[c].pc = "done"
        /\ ~conn[c].open
        /\ conn[c].received = ResultJson

(***************************************************************************)
(* Behavior registry: the state machine of a registry object and its two   *)
(* files.  One action is one call of a public method, its save included.   *)
(***************************************************************************)
\* save_app_rules fails at most this many times in a run
MaxSaveFailures == 1

\* the app-rules documents a registry is constructed from: no file, a file that
\* is not JSON, JSON null, the default structure, {}, dicts with missing keys,
\* a document with rules, a hand-edited document that repeats an app
OneRuleSlots ==
    [s \in AllSlots |-> IF s = "w1" THEN Slot(<<Rule("Foo", "keep_same", FALSE)>>)
                        ELSE Slot(<<>>)]
RepeatedRuleSlots ==
    [s \in AllSlots |-> IF s = "w1"
                        THEN Slot(<<Rule("Foo", "keep_same", FALSE),
                                    Rule("Foo", "maximize", TRUE)>>)
                        ELSE Slot(<<>>)]
AppRuleFiles ==
    { MissingFile,
      GarbageFile,
      JsonDump(NotADict),
      JsonDump(Dict(DefaultAppRules)),
      JsonDump(Dict(AppRules(NoStartup, NoDisplayRules))),
      JsonDump(Dict(AppRules(StartupNoKeepOpen,
                             DisplayRules([s \in AllSlots |-> NoSlot])))),
      JsonDump(Dict(AppRules(Startup(<<"Foo">>), DisplayRules(OneRuleSlots)))),
      JsonDump(Dict(AppRules(Startup(<<"Foo", "Foo">>), DisplayRules(RepeatedRuleSlots)))) }

\* the record of the last call: the method and its arguments, what the save did
\* ("none": save_app_rules was not called), what the method returned ("None", or
\* "raise"), whether it changed self.app_rules, whether the file is as it was
\* before the call, and of the run of consecutive
\* calls of this method with these (display, app): whether this call is not the
\* first of the run (again), whether the previous call had other settings,
\* whether every save of the run worked.
\* After reload, after/app/again/clean describe the run that preceded it.
Call0 ==
    [op |-> "init", display |-> "", app |-> "", behavior |-> "", maximize |-> FALSE,
     persist |-> "none", ret |-> "None", changed |-> FALSE, file_kept |-> TRUE,
     again |-> FALSE, differs |-> FALSE, clean |-> TRUE, after |-> ""]

SameRun(op, display, app) ==
    last.op = op /\ last.display = display /\ last.app = app
RunClean(op, display, app, persist) ==
    /\ persist \in {"none", "ok"}
    /\ SameRun(op, display, app) => last.clean

Called(op, display, app, behavior, maximize, persist, ret, changed, file_kept) ==
    [op |-> op, display |-> display, app |-> app, behavior |-> behavior,
     maximize |-> maximize, persist |-> persist, ret |-> ret, changed |-> changed,
     file_kept |-> file_kept,
     again |-> SameRun(op, display, app),
     differs |-> /\ SameRun(op, display, app)
                 /\ (last.behavior # behavior \/ last.maximize # maximize),
     clean |-> RunClean(op, display, app, persist),
     after |-> ""]

\* what a mutator returns to its caller: the value of save_app_rules is dropped
MutatorReturn(outcome) == "None"

ProcessorAndDaemonIdle == ProcessorIdle /\ DaemonIdle

\* the pairs of files a registry is constructed from: a behaviors file that
\* holds a list with every app-rules file, and every behaviors file with the
\* app-rules file that holds null
InitFiles ==
    { f \in BehaviorFiles \X AppRuleFiles :
          f[1].kind = "list" \/ f[2] = JsonDump(NotADict) }

\* BehaviorRegistry.__init__: both files are loaded
InitRegistry ==
    /\ \E f \in InitFiles : behaviors_file = f[1] /\ app_rules_file = f[2]
    /\ failures = 0
    /\ reg = Registry(load_behaviors(behaviors_file), load_app_rules(app_rules_file))
    /\ last = Call0
    /\ ProcessorAndDaemonIdle
    /\ SysIdle

\* a mutator called while self.app_rules is not a dict: the first membership test
\* raises TypeError
MutatorRaises(op, display, app, behavior, maximize) ==
    /\ reg.app_rules.tag # "dict"
    /\ last' = Called(op, display, app, behavior, maximize, "none", "raise", FALSE, TRUE)
    /\ UNCHANGED <<reg, app_rules_file, failures>>

\* a mutator that changed self.app_rules to v and calls save_app_rules
MutatorSaves(op, display, app, behavior, maximize, v) ==
    \E outcome \in SaveOutcomes :
        /\ outcome # "ok" => failures < MaxSaveFailures
        /\ failures' = IF outcome = "ok" THEN failures ELSE failures + 1
        /\ reg' = [reg EXCEPT !.app_rules = Dict(v)]
        /\ app_rules_file' = FileAfterSave(app_rules_file, Dict(v), outcome)
        /\ last' = Called(op, display, app, behavior, maximize, outcome,
                          MutatorReturn(outcome), Dict(v) # reg.app_rules,
                          app_rules_file' = app_rules_file)

\* a mutator that returns without a change and without a save
MutatorReturnsEarly(op, display, app, behavior, maximize) ==
    /\ last' = Called(op, display, app, behavior, maximize, "none", "None", FALSE, TRUE)
    /\ UNCHANGED <<reg, app_rules_file, failures>>

add_display_rule(display, app, behavior, maximize) ==
    /\ \/ MutatorRaises("add_display_rule", display, app, behavior, maximize)
       \/ /\ reg.app_rules.tag = "dict"
          /\ MutatorSaves("add_display_rule", display, app, behavior, maximize,
                          PutDisplayRule(reg.app_rules.val, display,
                                         Rule(app, behavior, maximize)))
    /\ UNCHANGED behaviors_file
    /\ UNCHANGED <<procVars, daemonVars, sysVars>>

remove_display_rule(display, app) ==
    /\ \/ MutatorRaises("remove_display_rule", display, app, "", FALSE)
       \/ /\ reg.app_rules.tag = "dict"
          /\ IF RemoveReturnsEarly(reg.app_rules.val, display)
             THEN MutatorReturnsEarly("remove_display_rule", display, app, "", FALSE)
             ELSE MutatorSaves("remove_display_rule", display, app, "", FALSE,
                               DropDisplayRule(reg.app_rules.val, display, app))
    /\ UNCHANGED behaviors_file
    /\ UNCHANGED <<procVars, daemonVars, sysVars>>

add_startup_app(app) ==
    /\ \/ MutatorRaises("add_startup_app", "", app, "", FALSE)
       \/ /\ reg.app_rules.tag = "dict"
          /\ LET v == StartupReady(reg.app_rules.val)
             IN  IF InKeepOpen(v, app)
                 THEN MutatorReturnsEarly("add_startup_app", "", app, "", FALSE)
                 ELSE MutatorSaves("add_startup_app", "", app, "", FALSE,
                                   PutStartupApp(v, app))
    /\ UNCHANGED behaviors_file
    /\ UNCHANGED <<procVars, daemonVars, sysVars>>

remove_startup_app(app) ==
    /\ \/ MutatorRaises("remove_startup_app", "", app, "", FALSE)
       \/ /\ reg.app_rules.tag = "dict"
          /\ IF RemoveStartupSkips(reg.app_rules.val)
             THEN MutatorReturnsEarly("remove_startup_app", "", app, "", FALSE)
             ELSE MutatorSaves("remove_startup_app", "", app, "", FALSE,
                               DropStartupApp(reg.app_rules.val, app))
    /\ UNCHANGED behaviors_file
    /\ UNCHANGED <<procVars, daemonVars, sysVars>>

\* reload: load_behaviors and load_app_rules again
ReloadKeepsAppRules(mem, file) == IF mem.tag = "dict" THEN mem ELSE load_app_rules(file)
ReloadedAppRules(mem, file) == load_app_rules(file)
reload ==
    /\ reg' = Registry(load_behaviors(behaviors_file),
                       ReloadedAppRules(reg.app_rules, app_rules_file))
    /\ last' = [Call0 EXCEPT !.op = "reload",
                             !.changed = (reg'.app_rules # reg.app_rules),
                             !.after = last.op,
                             !.app = last.app,
                             !.again = last.again,
                             !.clean = last.clean]
    /\ UNCHANGED <<behaviors_file, app_rules_file, failures>>
    /\ UNCHANGED <<procVars, daemonVars, sysVars>>

NextRegistry ==
    \/ \E d \in MutatedSlots : \E a \in Apps : \E s \in RuleSettings :
           add_display_rule(d, a, s[1], s[2])
    \/ \E d \in MutatedSlots : \E a \in Apps : remove_display_rule(d, a)
    \/ \E a \in Apps : add_startup_app(a)
    \/ \E a \in Apps : remove_startup_app(a)
    \/ reload

RegistrySpec == InitRegistry /\ [][NextRegistry]_vars

(***************************************************************************)
(* Properties of the behavior registry                                     *)
(***************************************************************************)
Mutators ==
    {"add_display_rule", "remove_display_rule", "add_startup_app", "remove_startup_app"}

\* the in-memory app rules (the structure of missing keys when they are no dict)
Mem == reg.app_rules.val
\* how many rules the slot holds for the app, how often keep_open names the app
RuleCount(v, display, app) ==
    Cardinality({i \in 1..Len(v.display_rules.slots[display].rules) :
                     v.display_rules.slots[display].rules[i].app = app})
NameCount(v, app) ==
    Cardinality({i \in 1..Len(v.startup.keep_open) : v.startup.keep_open[i] = app})

\* every display slot holds at most one rule per app: in memory, and in the stored
\* document when it holds a structure
OneRulePerApp(v) == \A d \in AllSlots : \A a \in Apps : RuleCount(v, d, a) <= 1
DisplayRuleInvariant ==
    /\ OneRulePerApp(Mem)
    /\ app_rules_file.kind = "json" => OneRulePerApp(app_rules_file.content.val)

\* C12: every call of add_display_rule, remove_display_rule, add_startup_app,
\* remove_startup_app and reload made when each display slot holds at most one
\* rule per app (in memory and in the stored document) leaves it so; hence from
\* the default structure or such a document it holds after any sequence of calls.
C12_DisplayRuleInvariantPreserved ==
    [][DisplayRuleInvariant => DisplayRuleInvariant']_vars

\* a rule was added for an app that had one in the slot, next to the rule of
\* another app, and the slot holds one rule for each
C12_Witness ==
    /\ DisplayRuleInvariant
    /\ last.op = "add_display_rule"
    /\ last.again
    /\ Len(Mem.display_rules.slots["w1"].rules) = 2
    /\ \A a \in Apps : RuleCount(Mem, "w1", a) = 1

\* C13: after add_display_rule was called twice in a row for the same (slot, app)
\* with different behavior/maximize values, the slot holds exactly one rule for
\* the app, and it carries the values of the second call.
C13_AddDisplayRuleIdempotent ==
    (last.op = "add_display_rule" /\ last.ret = "None" /\ last.again /\ last.differs) =>
        LET rules == Mem.display_rules.slots[last.display].rules
        IN  /\ RuleCount(Mem, last.display, last.app) = 1
            /\ \A i \in 1..Len(rules) :
                   rules[i].app = last.app =>
                       /\ rules[i].behavior = last.behavior
                       /\ rules[i].maximize = last.maximize

\* keep_open names no app twice: in memory, and in the stored document when it
\* holds a structure
NoDuplicateNames(v) == \A a \in Apps : NameCount(v, a) <= 1
KeepOpenInvariant ==
    /\ NoDuplicateNames(Mem)
    /\ app_rules_file.kind = "json" => NoDuplicateNames(app_rules_file.content.val)

\* C14: every call of add_startup_app, remove_startup_app and reload (and of the
\* display-rule mutators) made when keep_open has no duplicate, in memory and in
\* the stored document, leaves it so; and after remove_startup_app(a) returned,
\* keep_open holds no occurrence of a.
C14_KeepOpenHasNoDuplicates ==
    /\ [][KeepOpenInvariant => KeepOpenInvariant']_vars
    /\ []((last.op = "remove_startup_app" /\ last.ret = "None") =>
              NameCount(Mem, last.app) = 0)

\* add_startup_app was called again for an app that is in keep_open, next to
\* another app, and nothing was appended
C14_Witness ==
    /\ KeepOpenInvariant
    /\ last.op = "add_startup_app"
    /\ last.again
    /\ ~last.changed
    /\ Len(Mem.startup.keep_open) = 2
    /\ NameCount(Mem, last.app) = 1

\* C15: when no save has failed, after add_startup_app(a) was called once, or
\* twice or more in a row, and reload() was called next, keep_open names a
\* exactly once.
C15_AddStartupAppRoundTrip ==
    (last.op = "reload" /\ last.after = "add_startup_app" /\ failures = 0) =>
        NameCount(Mem, last.app) = 1

\* C16: after a mutator whose save worked, the stored document is the whole
\* in-memory structure (loading it gives the in-memory app rules back), and a
\* mutator call that changes the in-memory app rules has called save_app_rules.
C16_MutatorsPersistWholeStructure ==
    /\ []((last.op \in Mutators /\ last.persist = "ok") =>
              /\ app_rules_file = [kind |-> "json", content |-> reg.app_rules]
              /\ load_app_rules(app_rules_file) = reg.app_rules)
    /\ [][(last'.op \in Mutators /\ reg'.app_rules # reg.app_rules) =>
              last'.persist # "none"]_vars

\* a mutator changed the app rules, its save worked, and the stored document
\* holds the display rules and the startup apps
C16_Witness ==
    /\ last.op \in Mutators
    /\ last.persist = "ok"
    /\ last.changed
    /\ app_rules_file.kind = "json"
    /\ app_rules_file.content.val.display_rules.slots["w1"].rules # <<>>
    /\ app_rules_file.content.val.startup.keep_open # <<>>

\* the change the last mutator call made is in the in-memory app rules
ChangeInMemory ==
    CASE last.op = "add_display_rule" ->
             \E i \in 1..Len(Mem.display_rules.slots[last.display].rules) :
                 Mem.display_rules.slots[last.display].rules[i]
                     = Rule(last.app, last.behavior, last.maximize)
      [] last.op = "remove_display_rule" -> RuleCount(Mem, last.display, last.app) = 0
      [] last.op = "add_startup_app" -> NameCount(Mem, last.app) >= 1
      [] last.op = "remove_startup_app" -> NameCount(Mem, last.app) = 0
      [] OTHER -> TRUE

SaveFailed == last.op \in Mutators /\ last.persist \in {"open_failed", "write_failed"}

\* C17: when the save of a mutator failed, the in-memory app rules hold the change
\* the call made and the stored document is what it was before the call.
C17_FailedSaveKeepsBoth ==
    SaveFailed => (ChangeInMemory /\ last.file_kept)

\* C18: the value a mutator returns when its save failed differs from the value
\* (None) it returns when its save worked.
C18_FailedSaveIsReported ==
    /\ (last.op \in Mutators /\ last.persist = "ok") => last.ret = "None"
    /\ SaveFailed => last.ret # "None"

\* C19: after reload() the in-memory app rules are the content of the stored
\* document, or the default structure when the file is missing or cannot be
\* parsed, whatever was in memory before.
C19_ReloadDiscardsUnsaved ==
    last.op = "reload" =>
        reg.app_rules = IF app_rules_file.kind = "json"
                        THEN app_rules_file.content
                        ELSE Dict(DefaultAppRules)

\* reload() came after a mutator whose save failed and changed the in-memory app
\* rules back to the stored ones
C19_Witness ==
    /\ last.op = "reload"
    /\ last.after \in Mutators
    /\ ~last.clean
    /\ last.changed
    /\ app_rules_file.kind = "json"
    /\ reg.app_rules = app_rules_file.content

\* the default structure, spelled out: keep_open empty, close_others true, every
\* display slot empty
IsDefaultStructure(r) ==
    /\ r.tag = "dict"
    /\ r.val.startup.present /\ r.val.startup.has_keep_open
    /\ r.val.startup.keep_open = <<>>
    /\ r.val.startup.close_others
    /\ r.val.display_rules.present
    /\ \A d \in AllSlots :
           r.val.display_rules.slots[d].present /\ r.val.display_rules.slots[d].rules = <<>>

\* the documents that are missing or malformed: no file, a file the parser
\* rejects, a file that does not hold the expected structure
BehaviorsFileUnusable ==
    behaviors_file.kind \in {"missing", "garbage", "not_mapping", "null"}
AppRulesFileUnusable ==
    \/ app_rules_file.kind \in {"missing", "garbage", "partial"}
    \/ app_rules_file.kind = "json" /\ app_rules_file.content.tag # "dict"

\* C20: after load() (at construction and at reload) the behavior list is empty
\* when the behavior document is missing or malformed, and the app rules are the
\* default structure when the app-rules document is missing or malformed.
C20_LoadFallsBack ==
    last.op \in {"init", "reload"} =>
        /\ BehaviorsFileUnusable => reg.behaviors = [tag |-> "list", val |-> <<>>]
        /\ AppRulesFileUnusable => IsDefaultStructure(reg.app_rules)

\* the rules of the slot in the app rules v (none when the slot is missing)
RulesOf(v, display) ==
    IF v.display_rules.present /\ v.display_rules.slots[display].present
    THEN v.display_rules.slots[display].rules
    ELSE <<>>

\* the step is a call add_display_rule(display, app, ...) on app rules whose slot
\* already holds a rule of the app
ReplacingCall(display, app) ==
    /\ reg.app_rules.tag = "dict"
    /\ RulesFor(RulesOf(Mem, display), app) # {}
    /\ last'.op = "add_display_rule"
    /\ last'.display = display
    /\ last'.app = app
    /\ reg'.app_rules.tag = "dict"

\* C37: add_display_rule for an app that has a rule in the slot puts the new
\* settings at the position of the app's (first) rule; the slot keeps its length
\* and its other rules their positions; every other slot and the startup section
\* are as before; and the document of a save that worked holds exactly that.
C37_ExistingRuleReplacedInPlace ==
    [][\A d \in AllSlots : \A a \in Apps :
          ReplacingCall(d, a) =>
              LET old == RulesOf(Mem, d)
                  new == RulesOf(reg'.app_rules.val, d)
                  at == CHOOSE i \in RulesFor(old, a) : \A j \in RulesFor(old, a) : i <= j
              IN  /\ Len(new) = Len(old)
                  /\ new[at] = Rule(a, last'.behavior, last'.maximize)
                  /\ \A j \in (1..Len(old)) \ {at} : new[j] = old[j]
                  /\ \A o \in AllSlots \ {d} :
                         reg'.app_rules.val.display_rules.slots[o]
                             = Mem.display_rules.slots[o]
                  /\ reg'.app_rules.val.startup = Mem.startup
                  /\ last'.persist = "ok" => app_rules_file' = JsonDump(reg'.app_rules)]_vars

\* the last call changed the settings of Foo, whose rule still stands before the
\* rule of Bar
C37_Witness ==
    /\ last.op = "add_display_rule"
    /\ last.app = "Foo"
    /\ last.changed
    /\ last.persist = "ok"
    /\ Len(RulesOf(Mem, "w1")) = 2
    /\ RulesOf(Mem, "w1")[1] = Rule("Foo", last.behavior, last.maximize)
    /\ RulesOf(Mem, "w1")[2].app = "Bar"
    /\ app_rules_file = JsonDump(reg.app_rules)

(***************************************************************************)
(* Placeholders: match_command's captures and _substitute_params, run by   *)
(* process_command over behaviors that use both placeholders, a pattern    *)
(* with a '+', and commands that carry a placeholder token themselves      *)
(***************************************************************************)
ServePattern == <<"r","u","n"," ","{","r","e","p","o","}"," ","o","n"," ","{","p","o","r","t","}">>

PlaceholderLib ==
    { Behavior("serve", ServePattern,
               <<LaunchApp(CursorApp, <<Str(RepoToken)>>), KillPort(Str(PortToken))>>),
      Behavior("kill", <<"k","i","l","l"," ","{","p","o","r","t","}">>, <<KillPort(Str(PortToken))>>),
      Behavior("sum", <<"1","+","1">>, <<OtherAction>>),
      Behavior("noop", <<"O","p","e","n">>, <<>>),
      Behavior("cursor", <<"o","p","e","n"," ","c","u","r","s","o","r">>,
               <<LaunchApp(CursorApp, <<>>)>>) }

PlaceholderLists == UNION {[1..n -> PlaceholderLib] : n \in 0..MaxBehaviors}

PlaceholderCommands ==
    { <<"r","u","n"," ","w","e","b"," ","o","n"," ","3","0","0","0">>,
      <<"r","u","n"," ","a","{","p","o","r","t","}"," ","o","n"," ","8","0">>,
      <<"r","u","n"," "," ","o","n"," ">>,
      <<"1","+","1">>,
      <<"1","1">>,
      <<"k","i","l","l"," ">> }

\* one process_command call on a registry that holds behaviors of PlaceholderLib
InitPlaceholders ==
    /\ behaviors \in PlaceholderLists
    /\ command \in Commands \cup PlaceholderCommands
    /\ ppc = "start"
    /\ cur = NoBehavior
    /\ idx = 1
    /\ results = <<>>
    /\ calls = <<>>
    /\ tried = <<>>
    /\ result = NoResult
    /\ DaemonIdle
    /\ RegistryIdle
    /\ SysIdle

PlaceholderSpec == InitPlaceholders /\ [][NextProcessor]_vars

(***************************************************************************)
(* Properties of placeholders                                              *)
(***************************************************************************)
\* the position at which the token first occurs in the pattern (0: nowhere)
TokenPos(pattern, tok) ==
    IF Contains(pattern, tok)
    THEN CHOOSE i \in 1..Len(pattern) :
             /\ StartsAt(pattern, i, tok)
             /\ \A j \in 1..(i - 1) : ~StartsAt(pattern, j, tok)
    ELSE 0

\* the value params holds for the key
ParamValue(params, key) ==
    LET i == CHOOSE i \in 1..Len(params) : params[i].key = key
    IN  IF params[i].isnone THEN NoneText ELSE params[i].v

HasParam(params, key) == \E i \in 1..Len(params) : params[i].key = key

\* C28: when the matched behavior's pattern holds both placeholders, params.repo is
\* the text captured where {repo} stands in the pattern and params.port the digits
\* captured where {port} stands: each placeholder maps to its own capture.
C28_EachPlaceholderItsOwnCapture ==
    (cur.idx # 0 /\ Contains(behaviors[cur.idx].pattern, RepoToken)
                 /\ Contains(behaviors[cur.idx].pattern, PortToken)) =>
        LET pattern == behaviors[cur.idx].pattern
            m == PatternSearch(pattern, Stripped)
            repoFirst == TokenPos(pattern, RepoToken) < TokenPos(pattern, PortToken)
        IN  /\ ParamValue(cur.params, "repo") = m.caps[IF repoFirst THEN 1 ELSE 2]
            /\ ParamValue(cur.params, "port") = m.caps[IF repoFirst THEN 2 ELSE 1]

\* the text with every placeholder token whose parameter is present replaced by the
\* parameter's value, in one pass from left to right; everything else is copied
RECURSIVE Expand(_, _)
Expand(text, params) ==
    IF text = <<>> THEN <<>>
    ELSE IF \E i \in 1..Len(params) : StartsAt(text, 1, KeyToken(params[i].key))
         THEN LET i == CHOOSE i \in 1..Len(params) : StartsAt(text, 1, KeyToken(params[i].key))
              IN  ParamValue(params, params[i].key)
                  \o Expand(SubSeq(text, Len(KeyToken(params[i].key)) + 1, Len(text)), params)
         ELSE <<Head(text)>> \o Expand(Tail(text), params)

\* the fields of an action that execute_behavior hands to _substitute_params
StringFields(a) ==
    CASE a.type = "launch_app" -> <<a.app>> \o a.args
      [] a.type = "move_windows" -> <<a.app>>
      [] a.type = "close_windows_except" -> <<a.app, a.repo_path>>
      [] a.type = "kill_port" -> <<a.port>>
      [] OTHER -> <<>>

\* C29: for every action of the matched behavior, each string field is handed to
\* the collaborator with every {name} token replaced by the value of the match
\* parameter of that name, tokens without a parameter kept, and no other text
\* altered.
C29_SubstitutionReplacesTokensOnly ==
    cur.idx # 0 =>
        \A i \in 1..Len(CurActions) :
            LET fs == StringFields(CurActions[i])
            IN  \A j \in 1..Len(fs) :
                    fs[j].isstr =>
                        _substitute_params(fs[j], cur.params)
                            = [raise |-> FALSE, val |-> Str(Expand(fs[j].s, cur.params))]

\* the pattern text with its placeholders left out
Elided(pattern) == Replace(Replace(pattern, RepoToken, <<>>), PortToken, <<>>)

\* C30: for every registered behavior, match_command of the non-empty text that
\* reproduces the behavior's pattern with its placeholders left out returns that
\* behavior.
C30_PatternTextMatchesItsBehavior ==
    \A i \in 1..Len(behaviors) :
        LET text == Elided(behaviors[i].pattern)
        IN  (ppc # "start" /\ text # <<>>) => match_command(behaviors, text).idx = i

(***************************************************************************)
(* Daemon processes: run() from handle_startup to the end of the process,  *)
(* the signal handler, and the socket file two daemon processes share.     *)
(* One action is one step of the main thread of a process.                 *)
(***************************************************************************)
\* the daemon that runs and a second one started by hand
Daemons == {1, 2}
\* connections one daemon accepts
MaxAccepts == 1

\* the login sessions: the apps set to open on login, the apps that run
Sessions ==
    { [login |-> l, running |-> r, quits |-> <<>>] :
          l \in SUBSET Apps, r \in {Apps, {"Foo"}} }

NewDaemon ==
    [pc |-> "off", running |-> TRUE, signalled |-> FALSE, late |-> 0,
     accepted |-> 0, inflight |-> 0, outcome |-> "none"]

\* get_apps_with_login_items: the names osascript printed are not parsed; the
\* function returns [] after the call and [] when the call raised
get_apps_with_login_items(login) == <<>>

\* get_startup_rules and the two .get calls of handle_startup
StartupKeepOpen(v) ==
    IF v.startup.present /\ v.startup.has_keep_open THEN v.startup.keep_open ELSE <<>>
StartupCloseOthers(v) == IF v.startup.present THEN v.startup.close_others ELSE TRUE

\* the loop of handle_startup: the apps it asks to quit, in order
RECURSIVE QuitRequests(_, _, _, _)
QuitRequests(login_items, keep_open, close_others, running) ==
    IF ~close_others \/ login_items = <<>> THEN <<>>
    ELSE (IF /\ \A i \in 1..Len(keep_open) : keep_open[i] # Head(login_items)
             /\ Head(login_items) \in running
          THEN <<Head(login_items)>> ELSE <<>>)
         \o QuitRequests(Tail(login_items), keep_open, close_others, running)

\* a command the heuristic parser recognizes
HeuristicCommand == <<"k","i","l","l"," ","p","o","r","t"," ","3","0","0","0">>

\* process_command of HeuristicCommand on a registry: iterating self.behaviors
\* raises TypeError when it is None
process_heuristic(r) ==
    IF r.behaviors.tag # "list" THEN "raised"
    ELSE IF match_command(r.behaviors.val, Strip(HeuristicCommand)).idx # 0 THEN "behavior"
    ELSE IF parse_direct_command(Strip(HeuristicCommand)) # 0 THEN "heuristic"
    ELSE "unknown"

InitLife ==
    /\ inst = [p \in Daemons |-> NewDaemon]
    /\ sock_path = 0
    /\ session \in Sessions
    /\ \E f \in InitFiles : behaviors_file = f[1] /\ app_rules_file = f[2]
    /\ reg = Registry(load_behaviors(behaviors_file), load_app_rules(app_rules_file))
    /\ last = Call0
    /\ failures = 0
    /\ mon = <<>>
    /\ thr = <<>>
    /\ ProcessorAndDaemonIdle

\* what the actions of this part leave alone
LifeFrame == UNCHANGED <<procVars, daemonVars, regVars, mon, thr>>

\* main(): the daemon object is constructed (both registries load the two files,
\* the signal handlers are installed) and run() is entered
DaemonStart(p) ==
    /\ inst[p].pc = "off"
    /\ inst' = [inst EXCEPT ![p].pc = "startup",
                            ![p].late = IF sock_path # 0 /\ inst[sock_path].pc = "loop"
                                        THEN sock_path ELSE 0]
    /\ UNCHANGED <<sock_path, session>>
    /\ LifeFrame

\* handle_startup: app_rules.get raises AttributeError when self.app_rules is no
\* dict, and run() ends with it; otherwise the login items are gone through
handle_startup(p) ==
    /\ inst[p].pc = "startup"
    /\ IF reg.app_rules.tag # "dict"
       THEN /\ inst' = [inst EXCEPT ![p].pc = "crashed"]
            /\ UNCHANGED session
       ELSE /\ inst' = [inst EXCEPT ![p].pc = "cleanup"]
            /\ session' =
                   [session EXCEPT !.quits =
                        @ \o QuitRequests(get_apps_with_login_items(session.login),
                                          StartupKeepOpen(reg.app_rules.val),
                                          StartupCloseOthers(reg.app_rules.val),
                                          session.running)]
    /\ UNCHANGED sock_path
    /\ LifeFrame

\* start_display_monitor, then cleanup(): the socket file is unlinked when it
\* exists, whichever process is bound to it
DaemonCleanup(p) ==
    /\ inst[p].pc = "cleanup"
    /\ inst' = [inst EXCEPT ![p].pc = "bind"]
    /\ sock_path' = 0
    /\ UNCHANGED session
    /\ LifeFrame

\* bind, listen, chmod: bind raises OSError when the socket file exists, and
\* run() ends with it
DaemonBind(p) ==
    /\ inst[p].pc = "bind"
    /\ IF sock_path # 0
       THEN /\ inst' = [inst EXCEPT ![p].pc = "aborted"]
            /\ UNCHANGED sock_path
       ELSE /\ inst' = [inst EXCEPT ![p].pc = "loop"]
            /\ sock_path' = p
    /\ UNCHANGED session
    /\ LifeFrame

\* the main loop: a client that connects to the socket file reaches the process
\* bound to it; accept() returns and a handler thread starts, which processes the
\* command
DaemonAccept(p) ==
    /\ inst[p].pc = "loop"
    /\ inst[p].running
    /\ sock_path = p
    /\ inst[p].accepted < MaxAccepts
    /\ inst' = [inst EXCEPT ![p].accepted = @ + 1, ![p].inflight = @ + 1,
                            ![p].outcome = process_heuristic(reg)]
    /\ UNCHANGED <<sock_path, session>>
    /\ LifeFrame

\* a handler thread ends
HandlerEnds(p) ==
    /\ inst[p].pc = "loop"
    /\ inst[p].inflight > 0
    /\ inst' = [inst EXCEPT ![p].inflight = @ - 1]
    /\ UNCHANGED <<sock_path, session>>
    /\ LifeFrame

\* while self.running is false: server_socket.close(), cleanup(), "Daemon stopped"
DaemonLoopExit(p) ==
    /\ inst[p].pc = "loop"
    /\ ~inst[p].running
    /\ inst' = [inst EXCEPT ![p].pc = "stopped"]
    /\ sock_path' = 0
    /\ UNCHANGED session
    /\ LifeFrame

\* a handler that sets the flag and exits without cleanup()
signal_handler_no_cleanup(p) ==
    /\ inst[p].pc \in {"startup", "cleanup", "bind", "loop"}
    /\ ~inst[p].signalled
    /\ inst' = [inst EXCEPT ![p].signalled = TRUE, ![p].running = FALSE, ![p].pc = "stopped"]
    /\ UNCHANGED <<sock_path, session>>
    /\ LifeFrame

\* SIGINT or SIGTERM: the handler runs in the main thread: self.running = False,
\* cleanup(), sys.exit(0).  SystemExit ends the process, handler threads included,
\* unless the main thread is inside a try with a bare except (the osascript call
\* of get_apps_with_login_items, the unlink of cleanup): then it is swallowed and
\* run() goes on with self.running false
signal_handler(p) ==
    /\ inst[p].pc \in {"startup", "cleanup", "bind", "loop"}
    /\ ~inst[p].signalled
    /\ \E swallowed \in BOOLEAN :
           /\ swallowed =>
                  \/ inst[p].pc = "startup" /\ reg.app_rules.tag = "dict"
                  \/ inst[p].pc = "cleanup" /\ sock_path # 0
           /\ inst' = [inst EXCEPT ![p].signalled = TRUE, ![p].running = FALSE,
                                   ![p].pc = IF swallowed THEN @ ELSE "stopped"]
    /\ sock_path' = 0
    /\ UNCHANGED session
    /\ LifeFrame

NextLife ==
    \E p \in Daemons :
        \/ DaemonStart(p)
        \/ handle_startup(p)
        \/ DaemonCleanup(p)
        \/ DaemonBind(p)
        \/ DaemonAccept(p)
        \/ HandlerEnds(p)
        \/ DaemonLoopExit(p)
        \/ signal_handler(p)

LifeSpec == InitLife /\ [][NextLife]_vars

\* the main thread of a started process keeps running; nothing is assumed about
\* handler threads, clients, signals or the start of a process
MainThread(p) ==
    \/ handle_startup(p)
    \/ DaemonCleanup(p)
    \/ DaemonBind(p)
    \/ DaemonLoopExit(p)
LifeLiveSpec == InitLife /\ [][NextLife]_vars /\ \A p \in Daemons : WF_vars(MainThread(p))

(***************************************************************************)
(* Properties of the daemon processes                                      *)
(***************************************************************************)
\* the process has ended
Exited(p) == inst[p].pc \in {"stopped", "aborted", "crashed"}

\* C21: whatever the two configuration documents hold, handle_startup completes
\* (run() does not end in it) and process_command of a command the heuristic
\* parser recognizes returns the heuristic's result instead of raising.
C21_MisconfiguredDaemonStaysAvailable ==
    \A p \in Daemons :
        /\ inst[p].pc # "crashed"
        /\ inst[p].accepted > 0 => inst[p].outcome = "heuristic"

\* C24: once a termination signal was delivered to a daemon it accepts no further
\* connection, and it ends, handlers in flight or not, with its socket file removed.
C24_SignalStopsDaemon ==
    /\ \A p \in Daemons : inst[p].signalled ~> (Exited(p) /\ sock_path # p)
    /\ [][\A p \in Daemons : inst[p].signalled => inst'[p].accepted = inst[p].accepted]_vars

\* a daemon was signalled while a handler was in flight and has stopped with the
\* handler still in flight and without a socket file
C24_Witness ==
    \E p \in Daemons :
        /\ inst[p].signalled /\ inst[p].pc = "stopped"
        /\ inst[p].inflight > 0
        /\ sock_path = 0

\* C25: a daemon started while another one was listening on the socket file
\* does not reach the main loop, and while the other one listens the socket file
\* stays bound to it.
C25_SecondDaemonFailsToBind ==
    \A p \in Daemons :
        (inst[p].late # 0 /\ inst[inst[p].late].pc = "loop") =>
            /\ inst[p].pc # "loop"
            /\ sock_path = inst[p].late

\* C26: once handle_startup has returned, a quit was requested for every login item
\* that runs and is not in keep_open, and for no app that is in keep_open.
C26_LoginItemsOutsideKeepOpenQuit ==
    \A p \in Daemons :
        (inst[p].pc \in {"cleanup", "bind", "loop"} /\ ~inst[p].signalled) =>
            LET keep_open == StartupKeepOpen(reg.app_rules.val)
                asked == {session.quits[i] : i \in 1..Len(session.quits)}
            IN  \A a \in Apps :
                    /\ (a \in session.login /\ a \in session.running
                        /\ \A i \in 1..Len(keep_open) : keep_open[i] # a) => a \in asked
                    /\ (\E i \in 1..Len(keep_open) : keep_open[i] = a) => a \notin asked

(***************************************************************************)
(* Display monitor: the polling loop of start_monitoring.  One action is   *)
(* one check_display_change call; the displays change in between.          *)
(***************************************************************************)
MaxDisplays == 3

\* the app-rules files the monitor can find at config_path
ConfigFiles ==
    AppRuleFiles
    \cup { MissingFile, GarbageFile, PartialFile,
           JsonDump(Dict(AppRules(Startup(<<>>),
               DisplayRules([s \in AllSlots |->
                   IF s = "w1" THEN Slot(<<Rule("Foo", "keep_same", FALSE)>>)
                   ELSE IF s = "w2" THEN Slot(<<Rule("Bar", "maximize", TRUE),
                                                Rule("Foo", "minimize", FALSE)>>)
                   ELSE Slot(<<Rule("Bar", "keep_same", FALSE)>>)])))) }

\* load_config: json.load(f), the default structure on FileNotFoundError; any
\* other exception (a file that is not JSON) is raised to the caller
load_config(file) ==
    CASE file.kind = "json" -> [raise |-> FALSE, val |-> file.content]
      [] file.kind = "missing" -> [raise |-> FALSE, val |-> Dict(DefaultAppRules)]
      [] OTHER -> [raise |-> TRUE, val |-> NotADict]

\* a window-manager call
WmCall(fn, app, display, maximize, behavior) ==
    [fn |-> fn, app |-> app, display |-> display, maximize |-> maximize, behavior |-> behavior]

\* display_rules.get(slot, []) of config.get("display_rules", {})
SlotRules(v, slot) ==
    IF v.display_rules.present /\ v.display_rules.slots[slot].present
    THEN v.display_rules.slots[slot].rules
    ELSE <<>>

\* one loop of on_display_connected: the calls made for the rules of a slot
RECURSIVE RuleCalls(_, _)
RuleCalls(rules, display) ==
    IF rules = <<>> THEN <<>>
    ELSE LET rule == Head(rules)
         IN  <<WmCall("move_windows_to_display", rule.app, display, rule.maximize, "")>>
             \o (IF ~rule.maximize
                 THEN <<WmCall("apply_window_behavior", rule.app, 0, FALSE, rule.behavior)>>
                 ELSE <<>>)
             \o RuleCalls(Tail(rules), display)

\* on_display_connected: the rules of w1 from two displays on, of w2 from three on
on_display_connected(v, display_count) ==
    (IF display_count >= 2 THEN RuleCalls(SlotRules(v, "w1"), 1) ELSE <<>>)
    \o (IF display_count >= 3 THEN RuleCalls(SlotRules(v, "w2"), 2) ELSE <<>>)

Monitor(last_display_count, count, polled, prev, wm) ==
    [last_display_count |-> last_display_count, count |-> count, polled |-> polled,
     prev |-> prev, wm |-> wm]

\* start_monitoring: last_display_count = get_display_count()
InitMonitor ==
    /\ \E n \in 1..MaxDisplays : mon = Monitor(n, n, "none", n, <<>>)
    /\ app_rules_file \in ConfigFiles
    /\ behaviors_file = [kind |-> "missing", content |-> <<>>]
    /\ reg = Registry(BehaviorList(<<>>), Dict(DefaultAppRules))
    /\ last = Call0
    /\ failures = 0
    /\ inst = <<>>
    /\ sock_path = 0
    /\ session = <<>>
    /\ thr = <<>>
    /\ ProcessorAndDaemonIdle

\* a display is connected or disconnected
DisplaysChange ==
    /\ \E n \in 1..MaxDisplays :
           /\ n # mon.count
           /\ mon' = [mon EXCEPT !.count = n]
    /\ UNCHANGED <<procVars, daemonVars, regVars, inst, sock_path, session, thr>>

\* check_display_change: on_display_connected is called when the count has grown;
\* when it raises (the config cannot be read, the config is no dict),
\* last_display_count keeps its value and start_monitoring prints the error
check_display_change ==
    /\ LET current_count == mon.count
           config == load_config(app_rules_file)
       IN  IF current_count = mon.last_display_count
           THEN mon' = Monitor(mon.last_display_count, mon.count, "same",
                               mon.last_display_count, <<>>)
           ELSE IF current_count > mon.last_display_count
           THEN IF config.raise \/ config.val.tag # "dict"
                THEN mon' = Monitor(mon.last_display_count, mon.count, "raised",
                                    mon.last_display_count, <<>>)
                ELSE mon' = Monitor(current_count, mon.count, "changed",
                                    mon.last_display_count,
                                    on_display_connected(config.val.val, current_count))
           ELSE mon' = Monitor(current_count, mon.count, "changed",
                               mon.last_display_count, <<>>)
    /\ UNCHANGED <<procVars, daemonVars, regVars, inst, sock_path, session, thr>>

NextMonitor == DisplaysChange \/ check_display_change

MonitorSpec == InitMonitor /\ [][NextMonitor]_vars

(***************************************************************************)
(* Properties of the display monitor                                       *)
(***************************************************************************)
\* the slots reachable with n displays and the display index of each
ReachableSlots(n) == {s \in {"w1", "w2"} : n >= (IF s = "w1" THEN 2 ELSE 3)}
DisplayOf(s) == IF s = "w1" THEN 1 ELSE 2

\* how many move calls the last check made for the app on the display
MovesMade(app, display) ==
    Cardinality({k \in 1..Len(mon.wm) :
                     /\ mon.wm[k].fn = "move_windows_to_display"
                     /\ mon.wm[k].app = app
                     /\ mon.wm[k].display = display})

\* C27: whenever a check has observed a display count that differs from the one
\* observed before, larger or smaller, and the stored display_rules can be read, it
\* has called the move operation once for every rule of every slot reachable at
\* the new count.
C27_EveryCountChangeAppliesRules ==
    LET config == load_config(app_rules_file)
    IN  (mon.polled = "changed" /\ ~config.raise /\ config.val.tag = "dict") =>
            \A s \in ReachableSlots(mon.last_display_count) : \A a \in Apps :
                MovesMade(a, DisplayOf(s))
                    = Cardinality(RulesFor(SlotRules(config.val.val, s), a))

(***************************************************************************)
(* Threads and processes that share a registry object or the app-rules     *)
(* file.  reload() and save_app_rules() take no lock: a step of another    *)
(* thread can run between two statements.  One action is one statement     *)
(* that reads or assigns the shared object or file.                        *)
(***************************************************************************)
Unread == [tag |-> "unread"]

\* rpc, wpc: position of reload() and of the mutator that saves; pre, post: the
\* registry when reload() was entered and when it returned; before, after: the
\* file when the save began and the document it writes; seen_b, seen_r: what a
\* match and a rule read of another thread got while reload() ran; loaded,
\* config: what load_app_rules and load_config of another process got while
\* the save ran
Threads(rpc, wpc) ==
    [rpc |-> rpc, wpc |-> wpc, pre |-> Unread, post |-> Unread,
     before |-> Unread, after |-> Unread,
     seen_b |-> Unread, seen_r |-> Unread, loaded |-> Unread, config |-> Unread]

\* a registry that loaded its files; the files were edited since
InitShared ==
    /\ \E f \in InitFiles :
           reg = Registry(load_behaviors(f[1]), load_app_rules(f[2]))
    /\ \E f \in InitFiles : behaviors_file = f[1] /\ app_rules_file = f[2]
    /\ thr = Threads("idle", "idle")
    /\ last = Call0
    /\ failures = 0
    /\ inst = <<>>
    /\ sock_path = 0
    /\ session = <<>>
    /\ mon = <<>>
    /\ ProcessorAndDaemonIdle

SharedFrame == UNCHANGED <<procVars, daemonVars, last, failures, inst, sock_path, session, mon>>

\* reload() is entered
ReloadEnters ==
    /\ thr.rpc = "idle"
    /\ thr' = [thr EXCEPT !.rpc = "entered", !.pre = reg]
    /\ UNCHANGED <<reg, behaviors_file, app_rules_file>>
    /\ SharedFrame

\* reload(): self.load_behaviors() assigns self.behaviors
ReloadLoadsBehaviors ==
    /\ thr.rpc = "entered"
    /\ reg' = [reg EXCEPT !.behaviors = load_behaviors(behaviors_file)]
    /\ thr' = [thr EXCEPT !.rpc = "behaviors_loaded"]
    /\ UNCHANGED <<behaviors_file, app_rules_file>>
    /\ SharedFrame

\* reload(): self.load_app_rules() assigns self.app_rules, and reload() returns
ReloadLoadsAppRules ==
    /\ thr.rpc = "behaviors_loaded"
    /\ reg' = [reg EXCEPT !.app_rules = load_app_rules(app_rules_file)]
    /\ thr' = [thr EXCEPT !.rpc = "returned", !.post = reg']
    /\ UNCHANGED <<behaviors_file, app_rules_file>>
    /\ SharedFrame

\* match_command of another thread while reload() runs: it reads self.behaviors
ReaderMatches ==
    /\ thr.rpc \in {"entered", "behaviors_loaded"}
    /\ thr.seen_b = Unread
    /\ thr' = [thr EXCEPT !.seen_b = reg.behaviors]
    /\ UNCHANGED <<reg, behaviors_file, app_rules_file>>
    /\ SharedFrame

\* get_startup_rules or get_display_rules of another thread while reload() runs:
\* it reads self.app_rules
ReaderReadsRules ==
    /\ thr.rpc \in {"entered", "behaviors_loaded"}
    /\ thr.seen_r = Unread
    /\ thr' = [thr EXCEPT !.seen_r = reg.app_rules]
    /\ UNCHANGED <<reg, behaviors_file, app_rules_file>>
    /\ SharedFrame

\* a mutator of a registry object in another process (the configuration window)
\* has added an app to keep_open and calls save_app_rules: open(file, 'w')
\* empties the file
SaveOpens ==
    /\ thr.wpc = "idle"
    /\ load_app_rules(app_rules_file).tag = "dict"
    /\ \E a \in Apps :
           LET v == StartupReady(load_app_rules(app_rules_file).val)
           IN  /\ ~InKeepOpen(v, a)
               /\ thr' = [thr EXCEPT !.wpc = "opened", !.before = app_rules_file,
                                     !.after = JsonDump(Dict(PutStartupApp(v, a)))]
    /\ app_rules_file' = PartialFile
    /\ UNCHANGED <<reg, behaviors_file>>
    /\ SharedFrame

\* save_app_rules: json.dump has written the document and the file is closed
SaveWrites ==
    /\ thr.wpc = "opened"
    /\ app_rules_file' = thr.after
    /\ thr' = [thr EXCEPT !.wpc = "written"]
    /\ UNCHANGED <<reg, behaviors_file>>
    /\ SharedFrame

\* load_app_rules of a registry in another process while the save runs
ReaderLoadsAppRules ==
    /\ thr.wpc = "opened"
    /\ thr.loaded = Unread
    /\ thr' = [thr EXCEPT !.loaded = load_app_rules(app_rules_file)]
    /\ UNCHANGED <<reg, behaviors_file, app_rules_file>>
    /\ SharedFrame

\* load_config of the display monitor while the save runs
MonitorLoadsConfig ==
    /\ thr.wpc = "opened"
    /\ thr.config = Unread
    /\ thr' = [thr EXCEPT !.config = load_config(app_rules_file)]
    /\ UNCHANGED <<reg, behaviors_file, app_rules_file>>
    /\ SharedFrame

NextShared ==
    \/ ReloadEnters
    \/ ReloadLoadsBehaviors
    \/ ReloadLoadsAppRules
    \/ ReaderMatches
    \/ ReaderReadsRules
    \/ SaveOpens
    \/ SaveWrites
    \/ ReaderLoadsAppRules
    \/ MonitorLoadsConfig

SharedSpec == InitShared /\ [][NextShared]_vars

(***************************************************************************)
(* Properties of the shared registry and file                              *)
(***************************************************************************)
\* C22: a thread that matched a command and read the rules while reload() ran has
\* seen the behavior list and the app rules of one load: both as they were when
\* reload() was entered, or both as they were when it returned.
C22_ReloadIsNeverSeenTorn ==
    (thr.rpc = "returned" /\ thr.seen_b # Unread /\ thr.seen_r # Unread) =>
        \/ Registry(thr.seen_b, thr.seen_r) = thr.pre
        \/ Registry(thr.seen_b, thr.seen_r) = thr.post

\* C23: what load_app_rules and load_config of another process got while
\* save_app_rules ran is what they get from the complete document of before the
\* write or from the complete document written.
C23_NoHalfWrittenDocumentIsRead ==
    /\ thr.loaded # Unread =>
           thr.loaded \in {load_app_rules(thr.before), load_app_rules(thr.after)}
    /\ thr.config # Unread =>
           thr.config \in {load_config(thr.before), load_config(thr.after)}

(***************************************************************************)
(* A mutator and reload() on one registry object, in two threads.  The     *)
(* mutator changes the dict self.app_rules refers to and then saves what   *)
(* self.app_rules refers to at that moment; reload() assigns a newly       *)
(* loaded dict to self.app_rules.                                          *)
(***************************************************************************)
\* rpc, mpc: position of reload() and of add_display_rule; pre, post: the registry
\* when reload() was entered and when it returned; display, rule: the arguments
\* of add_display_rule
MutatorThreads ==
    [rpc |-> "idle", mpc |-> "idle", pre |-> Unread, post |-> Unread,
     display |-> "", rule |-> Unread]

\* a registry that loaded its files; the files were edited since
InitMutate ==
    /\ \E f \in InitFiles :
           reg = Registry(load_behaviors(f[1]), load_app_rules(f[2]))
    /\ \E f \in InitFiles : behaviors_file = f[1] /\ app_rules_file = f[2]
    /\ thr = MutatorThreads
    /\ last = Call0
    /\ failures = 0
    /\ inst = <<>>
    /\ sock_path = 0
    /\ session = <<>>
    /\ mon = <<>>
    /\ ProcessorAndDaemonIdle

\* add_display_rule up to the save: the rule is put into the dict in memory
MutatorUpdates(display, app, behavior, maximize) ==
    /\ thr.mpc = "idle"
    /\ reg.app_rules.tag = "dict"
    /\ reg' = [reg EXCEPT !.app_rules =
                   Dict(PutDisplayRule(reg.app_rules.val, display,
                                       Rule(app, behavior, maximize)))]
    /\ thr' = [thr EXCEPT !.mpc = "updated", !.display = display,
                          !.rule = Rule(app, behavior, maximize)]
    /\ UNCHANGED <<behaviors_file, app_rules_file>>
    /\ SharedFrame

\* save_app_rules of the mutator: open(file, 'w') empties the file, or fails
MutatorOpens ==
    /\ thr.mpc = "updated"
    /\ \/ /\ app_rules_file' = PartialFile
          /\ thr' = [thr EXCEPT !.mpc = "opened"]
       \/ /\ UNCHANGED app_rules_file
          /\ thr' = [thr EXCEPT !.mpc = "save_failed"]
    /\ UNCHANGED <<reg, behaviors_file>>
    /\ SharedFrame

\* save_app_rules of the mutator: json.dump(self.app_rules, f) writes what
\* self.app_rules refers to now, and add_display_rule returns
MutatorDumps ==
    /\ thr.mpc = "opened"
    /\ app_rules_file' = JsonDump(reg.app_rules)
    /\ thr' = [thr EXCEPT !.mpc = "saved"]
    /\ UNCHANGED <<reg, behaviors_file>>
    /\ SharedFrame

NextMutate ==
    \/ ReloadEnters
    \/ ReloadLoadsBehaviors
    \/ ReloadLoadsAppRules
    \/ \E d \in MutatedSlots : \E a \in Apps : \E s \in RuleSettings :
           MutatorUpdates(d, a, s[1], s[2])
    \/ MutatorOpens
    \/ MutatorDumps

MutateSpec == InitMutate /\ [][NextMutate]_vars

\* the rule is in the slot of the app rules r (a loaded value)
HoldsRule(r, display, rule) ==
    /\ r.tag = "dict"
    /\ \E i \in 1..Len(RulesOf(r.val, display)) : RulesOf(r.val, display)[i] = rule

\* C34: once add_display_rule and a reload() that ran at the same time on the same
\* registry have both returned and the save of add_display_rule worked, the rule
\* is in the app rules in memory and in the stored document.
C34_ConcurrentUpdateIsKept ==
    (thr.rpc = "returned" /\ thr.mpc = "saved") =>
        /\ HoldsRule(reg.app_rules, thr.display, thr.rule)
        /\ HoldsRule(load_app_rules(app_rules_file), thr.display, thr.rule)

(***************************************************************************)
(* The registries of a daemon.  SolonDaemon.__init__ constructs            *)
(* CommandProcessor(), which constructs a BehaviorRegistry of its own, and *)
(* then BehaviorRegistry() for self.registry: the variable behaviors is    *)
(* the behavior list of the processor's registry, reg is self.registry.    *)
(* Both load the same documents at construction.                           *)
(***************************************************************************)
\* the behaviors documents of a daemon: those that load as a list, and a document
\* that registers a behavior with an action
ListedBehaviorFiles ==
    {f \in BehaviorFiles : load_behaviors(f).tag = "list"}
    \cup { [kind |-> "list",
            content |-> <<Behavior("kill", <<"k","i","l","l"," ">> \o PortToken,
                                   <<KillPort(Str(PortToken))>>)>>] }

\* SolonDaemon.__init__, and a command a client has sent
InitOwned ==
    /\ behaviors_file \in ListedBehaviorFiles
    /\ app_rules_file = MissingFile
    /\ reg = Registry(load_behaviors(behaviors_file), load_app_rules(app_rules_file))
    /\ behaviors = load_behaviors(behaviors_file).val
    /\ command \in Commands
    /\ ppc = "start"
    /\ cur = NoBehavior
    /\ idx = 1
    /\ results = <<>>
    /\ calls = <<>>
    /\ tried = <<>>
    /\ result = NoResult
    /\ last = Call0
    /\ failures = 0
    /\ DaemonIdle
    /\ SysIdle

\* the behaviors document is edited
BehaviorsFileEdited ==
    /\ behaviors_file' \in ListedBehaviorFiles \ {behaviors_file}
    /\ UNCHANGED <<reg, app_rules_file, last, failures>>
    /\ UNCHANGED <<procVars, daemonVars, sysVars>>

NextOwned ==
    \/ BehaviorsFileEdited
    \/ reload
    \/ NextProcessor

OwnedSpec == InitOwned /\ [][NextOwned]_vars

\* C35: a command the daemon handles after reload() was applied to the registry
\* the daemon holds is matched against the behaviors that registry holds.
C35_CommandsSeeTheDaemonsRegistry ==
    [][(ppc = "start" /\ ppc' # "start" /\ last.op = "reload" /\ Stripped # <<>>) =>
           cur' = match_command(reg.behaviors.val, Stripped)]_vars

(***************************************************************************)
(* The daemon and clients that wait for the response.  send_command of the *)
(* CLI and of the voice listener sends the command with sendall, does not  *)
(* close or shut down its socket, and reads until the daemon closes the    *)
(* connection: a sendall of the handler to such a client is received as a  *)
(* whole.                                                                  *)
(***************************************************************************)
\* handle_client: sendall(json.dumps(result)) to a client that is reading
HandleSendToReader(c) ==
    /\ conn[c].pc = "send"
    /\ conn' = [conn EXCEPT ![c].received = @ \o ResultJson,
                            ![c].sends = @ + 1,
                            ![c].pc = "finally"]
    /\ UNCHANGED dstate
    /\ UNCHANGED procVars
    /\ UNCHANGED regVars
    /\ UNCHANGED sysVars

\* handle_client, except Exception: the error response to a client that is reading
HandleExceptToReader(c) ==
    /\ conn[c].pc = "except"
    /\ conn' = [conn EXCEPT ![c].received = @ \o ErrorJson,
                            ![c].sends = @ + 1,
                            ![c].pc = "finally"]
    /\ UNCHANGED dstate
    /\ UNCHANGED procVars
    /\ UNCHANGED regVars
    /\ UNCHANGED sysVars

NextReaders ==
    \/ DaemonRun
    \/ \E c \in ConnIds : ClientConnect(c)
    \/ \E c \in ConnIds : Accept(c)
    \/ \E c \in ConnIds : HandleRecv(c)
    \/ \E c \in ConnIds : HandleProcess(c)
    \/ \E c \in ConnIds : HandleStall(c)
    \/ \E c \in ConnIds : HandleSendToReader(c)
    \/ \E c \in ConnIds : HandleExceptToReader(c)
    \/ \E c \in ConnIds : HandleFinally(c)

\* the steps of the handler thread of connection c, the stall excepted
HandlerThread(c) ==
    \/ HandleRecv(c)
    \/ HandleProcess(c)
    \/ HandleSendToReader(c)
    \/ HandleExceptToReader(c)
    \/ HandleFinally(c)

\* every handler is a thread of its own that is scheduled again and again;
\* nothing forces a collaborator call to return
ReadersLiveSpec ==
    InitDaemon /\ [][NextReaders]_vars /\ \A c \in ConnIds : WF_vars(HandlerThread(c))

\* the client has its response and the end of the stream: one whole JSON object
\* was written and the connection is closed
Responded(c) ==
    /\ conn[c].pc = "done"
    /\ ~conn[c].open
    /\ conn[c].sends = 1
    /\ IsJsonObject(conn[c].received)

\* C36: the handler of every accepted connection whose client has sent a
\* non-empty command and waits for the response eventually writes one response
\* and closes the connection, unless the processing of the command never
\* returns; the handler never waits for the client to close first.
C36_WaitingClientIsAnswered ==
    \A c \in ConnIds :
        (conn[c].pc = "recv" /\ conn[c].payload > 0)
            ~> (Responded(c) \/ conn[c].pc = "stalled")

\* a command longer than one read buffer, of which the handler has read a part,
\* was answered and the connection closed
C36_Witness ==
    \E c \in ConnIds :
        /\ Responded(c)
        /\ conn[c].payload > RecvBufSize
        /\ conn[c].data < conn[c].payload
        /\ conn[c].received = ResultJson

(***************************************************************************)
(* Edge inputs of process_command: empty and unknown commands, the port    *)
(* heuristic, a pattern that ends with {repo}, kill_port actions whose     *)
(* port is no number, run over a registry that also holds a behavior whose *)
(* pattern matches every text                                              *)
(***************************************************************************)
OpenPrefix == <<"o","p","e","n"," ">>

EdgeLib ==
    { Behavior("any", DotStar, <<LaunchApp(CursorApp, <<>>)>>),
      Behavior("open_repo", OpenPrefix \o RepoToken,
               <<LaunchApp(CursorApp, <<Str(RepoToken)>>)>>),
      Behavior("stop", <<"s","t","o","p">>,
               <<KillPort(Str(PortToken)), KillPort(Str(<<>>)), LaunchApp(CursorApp, <<>>)>>),
      Behavior("halt", <<"h","a","l","t"," ">> \o RepoToken,
               <<KillPort(Str(RepoToken)), LaunchApp(CursorApp, <<>>)>>),
      Behavior("drop", <<"d","r","o","p">>,
               <<KillPort(NoneField), LaunchApp(CursorApp, <<>>)>>) }

EdgeLists == UNION {[1..n -> EdgeLib] : n \in 0..MaxBehaviors}

EdgeCommands ==
    { <<"\t"," ">>,
      <<" ","h","e","l","l","o"," ">>,
      <<"H","e","l","l","o">>,
      <<"c","l","o","s","e"," ","p","o","r","t"," ","8","0">>,
      <<" ","K","i","l","l"," ","P","o","r","t"," ","0","0","7">>,
      <<"k","i","l","l"," ","p","o","r","t"," ","x">>,
      <<"o","p","e","n"," ","w","e","b">>,
      <<"s","t","o","p">>,
      <<"h","a","l","t"," ","w","e","b">>,
      <<"h","a","l","t"," ","8","0">>,
      <<"d","r","o","p">> }

\* one process_command call on a registry that holds behaviors of EdgeLib
InitEdge ==
    /\ behaviors \in EdgeLists
    /\ command \in Commands \cup EdgeCommands
    /\ ppc = "start"
    /\ cur = NoBehavior
    /\ idx = 1
    /\ results = <<>>
    /\ calls = <<>>
    /\ tried = <<>>
    /\ result = NoResult
    /\ DaemonIdle
    /\ RegistryIdle
    /\ SysIdle

EdgeSpec == InitEdge /\ [][NextProcessor]_vars

(***************************************************************************)
(* Properties of the edge inputs                                           *)
(***************************************************************************)
\* C31: process() of a command that is empty after trimming goes from its start
\* to its return in one step that asks the registry for no match (no behavior is
\* selected, also when a registered pattern matches the empty text) and calls no
\* collaborator, and what it returns is always the same failure result.
C31_EmptyCommandFailsAtOnce ==
    Stripped = <<>> =>
        /\ ppc \in {"start", "done"}
        /\ cur = NoBehavior
        /\ calls = <<>>
        /\ tried = <<>>
        /\ results = <<>>
        /\ ppc = "done" => (result = ErrorResult(EmptyCommandText) /\ ~result.success)

\* a whitespace-only command was answered while the first registered behavior
\* matches every text
C31_Witness ==
    /\ ppc = "done"
    /\ command # <<>>
    /\ Stripped = <<>>
    /\ behaviors # <<>>
    /\ BehaviorMatches(behaviors[1], Stripped)
    /\ result = ErrorResult(EmptyCommandText)

\* process() has ended for a non-empty command that no registered behavior matches
\* and no heuristic recognizes
Unrecognized == FallbackEnded /\ FirstTrigger = 0

\* no collaborator was invoked and the failure result was returned
FailedWithoutCalls ==
    /\ ppc = "done"
    /\ calls = <<>>
    /\ tried = <<>>
    /\ result.kind = "error"
    /\ ~result.success

\* C32 as stated: the diagnostic contains the command text that was submitted.
C32_DiagnosticHoldsSubmittedText ==
    Unrecognized => (FailedWithoutCalls /\ Contains(result.error, command))

\* C32, amended: the diagnostic is "Unknown command: " followed by the submitted
\* text with its surrounding whitespace trimmed, in the letter case submitted.
C32_DiagnosticHoldsTrimmedText ==
    Unrecognized =>
        /\ FailedWithoutCalls
        /\ result = ErrorResult(UnknownCommandPrefix \o Stripped)
        /\ Contains(result.error, Stripped)

\* an unrecognized command submitted with whitespace around it and an upper-case
\* letter in it was answered, with behaviors registered
C32_Witness ==
    /\ Unrecognized
    /\ behaviors # <<>>
    /\ Stripped # command
    /\ result.error = UnknownCommandPrefix \o Stripped

\* the digits N of a text of the form "kill port N" or "close port N" (<<>>: the
\* text is not of that form)
PortFormDigits(text) ==
    LET cl == Lower(text)
        at == IF StartsAt(cl, 1, <<"k","i","l","l"," ","p","o","r","t"," ">>) THEN 11
              ELSE IF StartsAt(cl, 1, <<"c","l","o","s","e"," ","p","o","r","t"," ">>) THEN 12
              ELSE 0
        ds == SubSeq(cl, at, Len(cl))
    IN  IF at # 0 /\ \A i \in 1..Len(ds) : IsDigit(ds[i]) THEN ds ELSE <<>>

\* C33: for a command "kill port N" or "close port N" that no registered behavior
\* matches, the only collaborator call process() makes is one kill_port(N), and
\* when kill_port returned r, process() returns {success: r, command: kill_port}.
C33_PortHeuristicKillsThatPort ==
    (Matching = {} /\ PortFormDigits(Stripped) # <<>>) =>
        /\ ppc \in {"start", "heur"} => calls = <<>>
        /\ ppc \in {"done", "raised"} =>
               /\ tried = <<3>>
               /\ Len(calls) = 1
               /\ calls[1].rec = Call("kill_port", Str(<<>>), <<>>, 0, FALSE, Str(<<>>),
                                      DigitsToInt(PortFormDigits(Stripped)))
               /\ calls[1].ret \in {"True", "False"} =>
                      /\ ppc = "done"
                      /\ result = [kind |-> "command", success |-> (calls[1].ret = "True"),
                                   name |-> "kill_port", results |-> <<>>, error |-> <<>>]

\* "Kill Port 007" was answered with the outcome true of kill_port(7)
C33_Witness ==
    /\ ppc = "done"
    /\ Matching = {}
    /\ behaviors # <<>>
    /\ DigitsToInt(PortFormDigits(Stripped)) = 7
    /\ calls[1].ret = "True"
    /\ result.success
    /\ result.name = "kill_port"

\* the literal text before {repo} when the pattern is that text followed by {repo}
\* (<<>>: the pattern is not of that shape)
TextBeforeRepo(pattern) ==
    LET n == Len(pattern) - Len(RepoToken)
        lit == SubSeq(pattern, 1, n)
    IN  IF /\ n > 0
           /\ StartsAt(pattern, n + 1, RepoToken)
           /\ \A i \in 1..n : IsWord(lit[i]) \/ lit[i] = " "
        THEN lit ELSE <<>>

\* C38: when the matched behavior's pattern is a literal text followed by {repo}
\* and the command is that text followed by a name, params.repo is the whole
\* name: all of the command that follows the literal text.
C38_TrailingRepoTakesTheRest ==
    (cur.idx # 0 /\ TextBeforeRepo(behaviors[cur.idx].pattern) # <<>>) =>
        LET lit == TextBeforeRepo(behaviors[cur.idx].pattern)
            cl == Lower(Stripped)
        IN  StartsAt(cl, 1, Lower(lit)) =>
                ParamValue(cur.params, "repo") = SubSeq(cl, Len(lit) + 1, Len(cl))

\* the port field of the kill_port action is no decimal integer: a text that,
\* after substitution, int() does not accept, or a value that is neither a text
\* nor an integer
PortIsNoNumber(action, params) ==
    /\ action.type = "kill_port"
    /\ IF action.port.isstr
       THEN ~IsDecimal(_substitute_params(action.port, params).val.s)
       ELSE ~IsDecimal(action.port.s)

\* C39: a kill_port action whose port, after substitution, is no decimal integer
\* is given the outcome false without a call of kill_port and without an
\* exception, and the actions after it are executed: the execution of the
\* behavior ends with a result that holds one outcome per action.
C39_BadPortIsRecordedFalse ==
    cur.idx # 0 =>
        \A i \in 1..Len(CurActions) :
            PortIsNoNumber(CurActions[i], cur.params) =>
                /\ ~PrepareAction(CurActions[i], cur.params).call
                /\ ~(ppc = "raised" /\ idx = i)
                /\ Len(results) >= i => results[i] = "False"
                /\ ppc = "done" => Len(results) = Len(CurActions)

====
